---------------------------- MODULE Spec2Model ----------------------------
(***************************************************************************)
(* Keycode registry and codec of vial-gui (keycodes/keycodes.py).          *)
(*                                                                         *)
(* Strings are sequences of tokens: "LT3(kc)" is <<"LT","3","(","kc",")">>.*)
(* find/replace/slice on a string are the same operations on its tokens.   *)
(* An optional value (None or x) is <<>> or <<x>>.                         *)
(* The static tables are represented by a few descriptors of each list;     *)
(* a tooltip is represented by a short text of its own, a label by its      *)
(* lines. The label replacement of the emscripten platform is left out.     *)
(***************************************************************************)
EXTENDS Integers, Sequences, FiniteSets, TLC

\* ------------------------------------------------------------------ bounds
\* number of descriptors constructed after the import
MaxExtra == 2
\* macro_count of a snapshot is 0 or MaxMacro
MaxMacro == 1
\* tap_dance_count of a snapshot is 0 or MaxTapDance
MaxTapDance == 1
\* number of entries of KEYCODES_HIDDEN that are represented (TD(0)..)
HiddenCount == 2
\* ------------------------------------------------------- program constants
FnLayers == 4
LayerTapCap == 16
GenericUsers == 16

\* ------------------------------------------------------------ text helpers
None == <<>>

Some(x) == <<x>>

Digit == <<"0", "1", "2", "3", "4", "5", "6", "7", "8", "9", "a", "b", "c", "d", "e", "f">>

RECURSIVE Dec(_)
\* "{}".format(n) for n >= 0
Dec(n) == IF n < 10 THEN <<Digit[n + 1]>> ELSE Dec(n \div 10) \o <<Digit[(n % 10) + 1]>>

\* "{:02}".format(n) for n >= 0
Dec02(n) == IF n < 10 THEN <<"0">> \o Dec(n) ELSE Dec(n)

RECURSIVE HexDigits(_)
HexDigits(n) == IF n < 16 THEN <<Digit[n + 1]>> ELSE HexDigits(n \div 16) \o <<Digit[(n % 16) + 1]>>

\* Python hex(code): "0x.." and "-0x.." for a negative code
hex(code) == IF code < 0 THEN <<"-", "0x">> \o HexDigits(0 - code) ELSE <<"0x">> \o HexDigits(code)

\* s.find(tok): index of the first occurrence, 0 when there is none
Find(s, tok) == IF \E i \in 1..Len(s) : s[i] = tok
                THEN CHOOSE i \in 1..Len(s) : s[i] = tok /\ \A j \in 1..(i - 1) : s[j] # tok
                ELSE 0

StartsWithAt(s, i, pat) == /\ i + Len(pat) - 1 <= Len(s)
                           /\ \A j \in 1..Len(pat) : s[i + j - 1] = pat[j]

RECURSIVE ReplaceFrom(_, _, _, _)
ReplaceFrom(s, i, pat, rep) ==
    IF i > Len(s) THEN <<>>
    ELSE IF StartsWithAt(s, i, pat) THEN rep \o ReplaceFrom(s, i + Len(pat), pat, rep)
    ELSE <<s[i]>> \o ReplaceFrom(s, i + 1, pat, rep)

\* s.replace(pat, rep), pat not empty
Replace(s, pat, rep) == ReplaceFrom(s, 1, pat, rep)

EndsWith(s, pat) == Len(s) >= Len(pat) /\ StartsWithAt(s, Len(s) - Len(pat) + 1, pat)

KC_SUFFIX == <<"(", "kc", ")">>

\* code & 0xFF00 and code & 0x00FF on Python's unbounded integers
AndFF00(code) == (code % 65536) - (code % 256)

And00FF(code) == code % 256

EmptyMap == [k \in {} |-> 0]

\* m[k] = v of a dict
Put(m, k, v) == (k :> v) @@ m

Range(f) == {f[x] : x \in DOMAIN f}

\* ------------------------------------------------------------- descriptors
\* Keycode(qmk_id, label, tooltip, masked, recorder_alias, alias) as a value
K(qmk_id, label, tooltip, masked, recorder_alias, alias) ==
    [qmk_id |-> qmk_id, label |-> label, tooltip |-> tooltip, masked |-> masked,
     recorder_alias |-> recorder_alias, alias |-> <<qmk_id>> \o alias]

Paren(name, inner) == <<name, "(">> \o inner \o <<")">>

KEYCODES_SPECIAL == <<
    K(<<"KC_NO">>, <<>>, None, FALSE, <<>>, <<>>),
    K(<<"KC_TRNS">>, <<"tri">>, None, FALSE, <<>>, << <<"KC_TRANSPARENT">> >>) >>

KEYCODES_BASIC == <<
    K(<<"KC_A">>, <<"A">>, None, FALSE, << <<"a">> >>, <<>>),
    K(<<"KC_5">>, <<"%", "5">>, None, FALSE, << <<"5">> >>, <<>>),
    K(<<"KC_PAUSE">>, <<"Pause">>, None, FALSE, << <<"pause">>, <<"break">> >>,
      << <<"KC_PAUS">>, <<"KC_BRK">>, <<"KC_BRMU">> >>) >>

KEYCODES_SHIFTED == << K(<<"KC_PERC">>, <<"%">>, None, FALSE, <<>>, <<>>) >>

KEYCODES_ISO == <<
    K(<<"KC_NONUS_HASH">>, <<"~", "#">>, <<"Non-US # and ~">>, FALSE, <<>>, << <<"KC_NUHS">> >>) >>

KEYCODES_BOOT == << K(<<"RESET">>, <<"Reset">>, <<"Reboot to bootloader">>, FALSE, <<>>, <<>>) >>

KEYCODES_MODIFIERS == <<
    K(Paren("OSM", <<"MOD_LSFT">>), <<"OSM", "LSft">>, <<"one shot LSft">>, FALSE, <<>>, <<>>),
    K(Paren("LSFT", <<"kc">>), <<"LSft", "(", "kc", ")">>, None, TRUE, <<>>, <<>>),
    K(Paren("C_S", <<"kc">>), <<"LCS", "(", "kc", ")">>, <<"LCTL + LSFT">>, TRUE, <<>>,
      << Paren("LCS", <<"kc">>) >>),
    K(Paren("LSFT_T", <<"kc">>), <<"LSft_T", "(", "kc", ")">>, <<"hold LSft, tap kc">>, TRUE, <<>>, <<>>),
    K(<<"KC_GESC">>, <<"~", "Esc">>, <<"Esc, ~ when shifted">>, FALSE, <<>>, <<>>) >>

KEYCODES_QUANTUM == <<
    K(<<"MAGIC_SWAP_CONTROL_CAPSLOCK">>, <<"Swap", "Ctrl", "Caps">>, <<"swap caps and lctl">>, FALSE, <<>>,
      << <<"CL_SWAP">> >>) >>

KEYCODES_BACKLIGHT == << K(<<"BL_TOGG">>, <<"BL", "Toggle">>, <<"backlight on/off">>, FALSE, <<>>, <<>>) >>

KEYCODES_MEDIA == << K(<<"KC_F13">>, <<"F13">>, None, FALSE, <<>>, <<>>) >>

KEYCODES_MACRO_BASE == <<
    K(<<"DYN_REC_START1">>, <<"DM1", "Rec">>, <<"dynamic macro 1 record">>, FALSE, <<>>, << <<"DM_REC1">> >>),
    K(<<"DYN_REC_START2">>, <<"DM2", "Rec">>, <<"dynamic macro 2 record">>, FALSE, <<>>, << <<"DM_REC2">> >>),
    K(<<"DYN_REC_STOP">>, <<"DM Rec", "Stop">>, <<"dynamic macro record stop">>, FALSE, <<>>, << <<"DM_RSTP">> >>),
    K(<<"DYN_MACRO_PLAY1">>, <<"DM1", "Play">>, <<"dynamic macro 1 play">>, FALSE, <<>>, << <<"DM_PLY1">> >>),
    K(<<"DYN_MACRO_PLAY2">>, <<"DM2", "Play">>, <<"dynamic macro 2 play">>, FALSE, <<>>, << <<"DM_PLY2">> >>) >>

KEYCODES_MIDI_BASIC == <<
    K(<<"MI_C">>, <<"MIDI", "C">>, <<"Midi send note C">>, FALSE, <<>>, <<>>),
    K(<<"MI_Cs">>, <<"MIDI", "C#/Db">>, <<"Midi send note C#/Db">>, FALSE, <<>>, << <<"MI_Db">> >>) >>

KEYCODES_MIDI_ADVANCED == <<
    K(<<"MI_OCT_N2">>, <<"MIDI", "Oct-2">>, <<"Midi set octave to -2">>, FALSE, <<>>, <<>>) >>

TDLabel(x) == Paren("TD", Dec(x))

KEYCODES_HIDDEN == [x \in 1..HiddenCount |-> K(TDLabel(x - 1), TDLabel(x - 1), None, FALSE, <<>>, <<>>)]

\* every descriptor constructed while the module is imported, in order
ImportOrder == KEYCODES_SPECIAL \o KEYCODES_BASIC \o KEYCODES_SHIFTED \o KEYCODES_ISO \o KEYCODES_BOOT
               \o KEYCODES_MODIFIERS \o KEYCODES_QUANTUM \o KEYCODES_BACKLIGHT \o KEYCODES_MEDIA
               \o KEYCODES_MACRO_BASE \o KEYCODES_MIDI_BASIC \o KEYCODES_MIDI_ADVANCED \o KEYCODES_HIDDEN


\* ------------------------------------------------- static protocol tables
\* the protocol tables have ids for M0..M255 and TD(0)..TD(255), for the layer actions
\* of 32 layers and for USER00..USER15
TableSlots == 256

TableLayers == 32

TableUsers == 16

RECURSIVE BitOr(_, _)
BitOr(a, b) == IF a = 0 THEN b ELSE IF b = 0 THEN a
               ELSE 2 * BitOr(a \div 2, b \div 2) + (IF a % 2 = 1 \/ b % 2 = 1 THEN 1 ELSE 0)

LayerKinds == <<"MO", "DF", "TG", "TT", "OSL", "TO">>

LayerBase5 == [MO |-> 20736, DF |-> 20992, TG |-> 21248, TT |-> 22528, OSL |-> 21504, TO |-> 20496]

LayerBase6 == [MO |-> 21024, DF |-> 21056, TG |-> 21088, TT |-> 21184, OSL |-> 21120, TO |-> 20992]

LTId(x) == <<"LT">> \o Dec(x) \o KC_SUFFIX

MacroId(x) == <<"M">> \o Dec(x)

UserId(x) == <<"USER">> \o Dec02(x)

\* ids with the same raw value in both protocol generations
CommonPairs ==
    { <<<<"KC_NO">>, 0>>, <<<<"KC_TRNS">>, 1>>, <<<<"KC_A">>, 4>>, <<<<"KC_5">>, 34>>,
      <<<<"KC_PAUSE">>, 72>>, <<<<"KC_NONUS_HASH">>, 50>>, <<<<"KC_F13">>, 104>>,
      <<<<"KC_PERC">>, 546>>, <<Paren("LSFT", <<"kc">>), 512>>, <<Paren("C_S", <<"kc">>), 768>> }
    \cup { <<LTId(x), 16384 + 256 * x>> : x \in 0..(LayerTapCap - 1) }
    \cup { <<TDLabel(x), 22272 + x>> : x \in 0..(TableSlots - 1) }

StaticPairs5 ==
    { <<<<"RESET">>, 23552>>, <<Paren("OSM", <<"MOD_LSFT">>), 21762>>,
      <<Paren("LSFT_T", <<"kc">>), 25088>>, <<<<"KC_GESC">>, 23574>>,
      <<<<"MAGIC_SWAP_CONTROL_CAPSLOCK">>, 23554>>, <<<<"BL_TOGG">>, 23743>>,
      <<<<"DYN_REC_START1">>, 23575>>, <<<<"DYN_REC_START2">>, 23576>>, <<<<"DYN_REC_STOP">>, 23577>>,
      <<<<"DYN_MACRO_PLAY1">>, 23578>>, <<<<"DYN_MACRO_PLAY2">>, 23579>>,
      <<<<"MI_C">>, 23599>>, <<<<"MI_Cs">>, 23600>>, <<<<"MI_OCT_N2">>, 23671>>,
      <<<<"FN_MO13">>, 24336>>, <<<<"FN_MO23">>, 24337>> }
    \cup { <<Paren(LayerKinds[k], Dec(x)), LayerBase5[LayerKinds[k]] + x>> : k \in 1..6, x \in 0..(TableLayers - 1) }
    \cup { <<MacroId(x), 24338 + x>> : x \in 0..(TableSlots - 1) }
    \cup { <<UserId(x), 24448 + x>> : x \in 0..(TableUsers - 1) }

StaticPairs6 ==
    { <<<<"RESET">>, 31744>>, <<Paren("OSM", <<"MOD_LSFT">>), 21154>>,
      <<Paren("LSFT_T", <<"kc">>), 8704>>, <<<<"KC_GESC">>, 31766>>,
      <<<<"MAGIC_SWAP_CONTROL_CAPSLOCK">>, 28672>>, <<<<"BL_TOGG">>, 30722>>,
      <<<<"DYN_REC_START1">>, 31827>>, <<<<"DYN_REC_START2">>, 31828>>, <<<<"DYN_REC_STOP">>, 31829>>,
      <<<<"DYN_MACRO_PLAY1">>, 31830>>, <<<<"DYN_MACRO_PLAY2">>, 31831>>,
      <<<<"MI_C">>, 28931>>, <<<<"MI_Cs">>, 28932>>, <<<<"MI_OCT_N2">>, 29003>>,
      <<<<"FN_MO13">>, 31863>>, <<<<"FN_MO23">>, 31864>> }
    \cup { <<Paren(LayerKinds[k], Dec(x)), LayerBase6[LayerKinds[k]] + x>> : k \in 1..6, x \in 0..(TableLayers - 1) }
    \cup { <<MacroId(x), 30464 + x>> : x \in 0..(TableSlots - 1) }
    \cup { <<UserId(x), 32256 + x>> : x \in 0..(TableUsers - 1) }

TableOf(pairs) == [id \in {p[1] : p \in pairs} |-> (CHOOSE p \in pairs : p[1] = id)[2]]

\* keycodes_v5.kc and keycodes_v6.kc: symbolic id -> raw integer
keycodes_v5_kc == TableOf(CommonPairs \cup StaticPairs5)

keycodes_v6_kc == TableOf(CommonPairs \cup StaticPairs6)

\* keycodes_v5.masked and keycodes_v6.masked: raw values of the "(kc)" ids
keycodes_v5_masked == {keycodes_v5_kc[id] : id \in {i \in DOMAIN keycodes_v5_kc : EndsWith(i, KC_SUFFIX)}}

keycodes_v6_masked == {keycodes_v6_kc[id] : id \in {i \in DOMAIN keycodes_v6_kc : EndsWith(i, KC_SUFFIX)}}

\* -------------------------------------------------------------------- state
VARIABLES
    protocol,                   \* Keycode.protocol
    masked_keycodes,            \* Keycode.masked_keycodes
    recorder_alias_to_keycode,  \* Keycode.recorder_alias_to_keycode
    qmk_id_to_keycode,          \* Keycode.qmk_id_to_keycode
    KEYCODES_LAYERS, KEYCODES_MACRO, KEYCODES_TAP_DANCE, KEYCODES_USER, KEYCODES_MIDI,
    KEYCODES, KEYCODES_MAP, RAWCODES_MAP,
    keyboard,                   \* the snapshot of the last recreate_keyboard_keycodes call, None before
    raised,                     \* the exception the last rebuild ended with, None when it returned
    repeated,                   \* the last rebuild had the same snapshot as the rebuild before it
    returned,                   \* [op, arg, result] of a call that has returned, None once the
                                \* caller has taken the result
    editor,                     \* the KeyOverride editor: keyboard, key_override_entries,
                                \* key_override_entries_available
    writes,                     \* the last handler of the editor that ran and the
                                \* key_override_set calls it made, one sequence per run of
                                \* KeyOverride.on_change
    dialog                      \* the AnyKeycodeDialog that is open, None when there is none

vars == <<protocol, masked_keycodes, recorder_alias_to_keycode, qmk_id_to_keycode,
          KEYCODES_LAYERS, KEYCODES_MACRO, KEYCODES_TAP_DANCE, KEYCODES_USER, KEYCODES_MIDI,
          KEYCODES, KEYCODES_MAP, RAWCODES_MAP, keyboard, raised, repeated, returned,
          editor, writes, dialog>>

\* the state of the two windows
ui == <<editor, writes, dialog>>

\* the state of the registry: the class attributes and the module globals
registry == <<protocol, masked_keycodes, recorder_alias_to_keycode, qmk_id_to_keycode,
              KEYCODES_LAYERS, KEYCODES_MACRO, KEYCODES_TAP_DANCE, KEYCODES_USER, KEYCODES_MIDI,
              KEYCODES, KEYCODES_MAP, RAWCODES_MAP>>

AliasError == <<"RuntimeError", "two keycodes claim the same alias">>

ResolveError == <<"RuntimeError", "unable to resolve qmk_id">>

DecodeError == <<"Exception", "AnyKeycode.decode">>

RECURSIVE claim_recorder_aliases_overwrite(_, _, _, _)
\* the loop without the test for a claimed alias
claim_recorder_aliases_overwrite(cls, d, aliases, i) ==
    IF i > Len(aliases) THEN cls
    ELSE claim_recorder_aliases_overwrite(
             [cls EXCEPT !.recorder_alias_to_keycode = Put(@, aliases[i], d)], d, aliases, i + 1)

RECURSIVE claim_recorder_aliases(_, _, _, _)
\* the loop of Keycode.__init__ over recorder_alias, from index i
claim_recorder_aliases(cls, d, aliases, i) ==
    IF i > Len(aliases) THEN cls
    ELSE IF aliases[i] \in DOMAIN cls.recorder_alias_to_keycode
    THEN [cls EXCEPT !.raised = Some(AliasError)]
    ELSE claim_recorder_aliases(
             [cls EXCEPT !.recorder_alias_to_keycode = Put(@, aliases[i], d)], d, aliases, i + 1)

\* Keycode.__init__ on the class state cls = [qmk_id_to_keycode, recorder_alias_to_keycode,
\* masked_keycodes, raised]
Keycode_init(cls, d) ==
    LET c1 == [cls EXCEPT !.qmk_id_to_keycode = Put(@, d.qmk_id, d)]
        c2 == claim_recorder_aliases(c1, d, d.recorder_alias, 1)
    IN  IF c2.raised # None THEN c2
        ELSE IF d.masked
        THEN [c2 EXCEPT !.masked_keycodes = @ \cup {Replace(d.qmk_id, KC_SUFFIX, <<>>)}]
        ELSE c2

RECURSIVE construct_range(_, _, _, _)
\* the constructor calls for ds[lo..hi] in order, stopping at the first one that raises
\* (the range is split in halves to keep the evaluation shallow)
construct_range(cls, ds, lo, hi) ==
    IF lo > hi \/ cls.raised # None THEN cls
    ELSE IF lo = hi THEN Keycode_init(cls, ds[lo])
    ELSE construct_range(construct_range(cls, ds, lo, (lo + hi) \div 2), ds, ((lo + hi) \div 2) + 1, hi)

construct_all(cls, ds) == construct_range(cls, ds, 1, Len(ds))

EmptyClass == [qmk_id_to_keycode |-> EmptyMap, recorder_alias_to_keycode |-> EmptyMap,
               masked_keycodes |-> {}, raised |-> None]

\* the class state once keycodes.py is imported
ImportedClass == construct_all(EmptyClass, ImportOrder)

\* ----------------------------------------------------------------- Keycode
\* resolve that answers 0 for an id the table lacks
resolve_in_default(proto, qmk_constant) ==
    LET kc == IF proto = 6 THEN keycodes_v6_kc ELSE keycodes_v5_kc
    IN  IF qmk_constant \notin DOMAIN kc
        THEN [ok |-> TRUE, val |-> 0, err |-> None]
        ELSE [ok |-> TRUE, val |-> kc[qmk_constant], err |-> None]

\* Keycode.resolve while Keycode.protocol is proto: [ok, val, err]
resolve_in(proto, qmk_constant) ==
    LET kc == IF proto = 6 THEN keycodes_v6_kc ELSE keycodes_v5_kc
    IN  IF qmk_constant \notin DOMAIN kc
        THEN [ok |-> FALSE, val |-> 0, err |-> ResolveError]
        ELSE [ok |-> TRUE, val |-> kc[qmk_constant], err |-> None]

IsHexDigits(s) == Len(s) > 0 /\ \A i \in 1..Len(s) : \E k \in 1..16 : Digit[k] = s[i]

RECURSIVE HexValue(_)
HexValue(s) == IF Len(s) = 0 THEN 0
               ELSE 16 * HexValue(SubSeq(s, 1, Len(s) - 1))
                    + (CHOOSE k \in 0..15 : Digit[k + 1] = s[Len(s)])

\* int(text, 16) of a literal written by hex()
IsHexLiteral(s) == \/ Len(s) >= 2 /\ s[1] = "0x" /\ IsHexDigits(Tail(s))
                   \/ Len(s) >= 3 /\ s[1] = "-" /\ s[2] = "0x" /\ IsHexDigits(Tail(Tail(s)))

IntBase16(s) == IF s[1] = "-" THEN 0 - HexValue(Tail(Tail(s))) ELSE HexValue(Tail(s))

\* names the expression evaluator knows: ids of the active table and the aliases of
\* the descriptors of the static lists
AnyNames ==
    [a \in UNION {{ImportOrder[i].alias[j] : j \in 1..Len(ImportOrder[i].alias)} : i \in 1..Len(ImportOrder)}
        |-> (CHOOSE i \in 1..Len(ImportOrder) :
                 \E j \in 1..Len(ImportOrder[i].alias) : ImportOrder[i].alias[j] = a)]

RECURSIVE AnyKeycode_decode(_, _)
\* AnyKeycode().decode(val) while Keycode.protocol is proto: [ok, val, err]
AnyKeycode_decode(proto, val) ==
    LET fail == [ok |-> FALSE, val |-> 0, err |-> DecodeError]
        open == Find(val, "(")
    IN  IF Len(val) = 0 THEN fail
        ELSE IF IsHexLiteral(val) THEN [ok |-> TRUE, val |-> IntBase16(val), err |-> None]
        ELSE IF resolve_in(proto, val).ok THEN resolve_in(proto, val)
        ELSE IF val \in DOMAIN AnyNames THEN resolve_in(proto, ImportOrder[AnyNames[val]].qmk_id)
        ELSE IF open > 1 /\ val[Len(val)] = ")"
        THEN LET outer == resolve_in(proto, SubSeq(val, 1, open) \o <<"kc", ")">>)
                 inner == AnyKeycode_decode(proto, SubSeq(val, open + 1, Len(val) - 1))
             IN  IF outer.ok /\ inner.ok
                 THEN [ok |-> TRUE, val |-> BitOr(outer.val, inner.val), err |-> None]
                 ELSE fail
        ELSE fail

\* find without the "kc" placeholder rule
find_exact(qmk_id) ==
    IF qmk_id \in DOMAIN KEYCODES_MAP THEN Some(KEYCODES_MAP[qmk_id]) ELSE None

\* Keycode.find: None or the descriptor
find(qmk_id) ==
    LET id == IF qmk_id = <<"kc">> THEN <<"KC_NO">> ELSE qmk_id
    IN  IF id \in DOMAIN KEYCODES_MAP THEN Some(KEYCODES_MAP[id]) ELSE None

\* is_mask that looks for the parenthesis only
is_mask_any_paren(qmk_id) == Find(qmk_id, "(") # 0

\* Keycode.is_mask
is_mask(qmk_id) ==
    Find(qmk_id, "(") # 0 /\ SubSeq(qmk_id, 1, Find(qmk_id, "(") - 1) \in masked_keycodes

\* find_outer_keycode that looks the whole string up
find_outer_keycode_whole(qmk_id) == find(qmk_id)

\* Keycode.find_outer_keycode
find_outer_keycode(qmk_id) ==
    IF is_mask(qmk_id) THEN find(SubSeq(qmk_id, 1, Find(qmk_id, "(") - 1)) ELSE find(qmk_id)

\* Keycode.find_inner_keycode
find_inner_keycode(qmk_id) ==
    IF is_mask(qmk_id) THEN find(SubSeq(qmk_id, Find(qmk_id, "(") + 1, Len(qmk_id) - 1)) ELSE find(qmk_id)

\* Keycode.label
label(qmk_id) ==
    IF find_outer_keycode(qmk_id) = None THEN qmk_id ELSE find_outer_keycode(qmk_id)[1].label

\* tooltip that leaves the text of the descriptor out
tooltip_id_only(qmk_id) ==
    IF find_outer_keycode(qmk_id) = None THEN None ELSE Some(find_outer_keycode(qmk_id)[1].qmk_id)

\* Keycode.tooltip: None or the text
tooltip(qmk_id) ==
    LET keycode == find_outer_keycode(qmk_id)
    IN  IF keycode = None THEN None
        ELSE IF keycode[1].tooltip # <<>>
        THEN Some(keycode[1].qmk_id \o <<": ">> \o keycode[1].tooltip)
        ELSE Some(keycode[1].qmk_id)

\* the masked table of protocol 5 whatever the active protocol is
active_masked_v5 == keycodes_v5_masked

\* the masked table of the active protocol, as serialize selects it
active_masked == IF protocol = 6 THEN keycodes_v6_masked ELSE keycodes_v5_masked

\* serialize that returns the outer id with its placeholder left in place
serialize_no_inner(code) ==
    IF AndFF00(code) \notin active_masked
    THEN IF code \in DOMAIN RAWCODES_MAP THEN RAWCODES_MAP[code].qmk_id ELSE hex(code)
    ELSE IF AndFF00(code) \in DOMAIN RAWCODES_MAP /\ And00FF(code) \in DOMAIN RAWCODES_MAP
         THEN RAWCODES_MAP[AndFF00(code)].qmk_id
         ELSE hex(code)

\* serialize that looks the inner keycode up under the whole code
serialize_inner_whole(code) ==
    IF AndFF00(code) \notin active_masked
    THEN IF code \in DOMAIN RAWCODES_MAP THEN RAWCODES_MAP[code].qmk_id ELSE hex(code)
    ELSE IF AndFF00(code) \in DOMAIN RAWCODES_MAP /\ code \in DOMAIN RAWCODES_MAP
         THEN Replace(RAWCODES_MAP[AndFF00(code)].qmk_id, <<"kc">>, RAWCODES_MAP[code].qmk_id)
         ELSE hex(code)

\* serialize that writes the literal of the low 16 bits
serialize_hex16(code) ==
    IF AndFF00(code) \notin active_masked
    THEN IF code \in DOMAIN RAWCODES_MAP THEN RAWCODES_MAP[code].qmk_id ELSE hex(code % 65536)
    ELSE IF AndFF00(code) \in DOMAIN RAWCODES_MAP /\ And00FF(code) \in DOMAIN RAWCODES_MAP
         THEN Replace(RAWCODES_MAP[AndFF00(code)].qmk_id, <<"kc">>, RAWCODES_MAP[And00FF(code)].qmk_id)
         ELSE hex(code % 65536)

\* serialize that substitutes the label of the inner keycode
serialize_label(code) ==
    IF AndFF00(code) \notin active_masked
    THEN IF code \in DOMAIN RAWCODES_MAP THEN RAWCODES_MAP[code].qmk_id ELSE hex(code)
    ELSE IF AndFF00(code) \in DOMAIN RAWCODES_MAP /\ And00FF(code) \in DOMAIN RAWCODES_MAP
         THEN Replace(RAWCODES_MAP[AndFF00(code)].qmk_id, <<"kc">>, RAWCODES_MAP[And00FF(code)].label)
         ELSE hex(code)

\* Keycode.serialize of an integer code
serialize(code) ==
    IF AndFF00(code) \notin active_masked
    THEN IF code \in DOMAIN RAWCODES_MAP THEN RAWCODES_MAP[code].qmk_id ELSE hex(code)
    ELSE IF AndFF00(code) \in DOMAIN RAWCODES_MAP /\ And00FF(code) \in DOMAIN RAWCODES_MAP
         THEN Replace(RAWCODES_MAP[AndFF00(code)].qmk_id, <<"kc">>, RAWCODES_MAP[And00FF(code)].qmk_id)
         ELSE hex(code)

\* deserialize that swallows the failure of the fallback whatever reraise is
deserialize_in_swallow(ids, proto, val, reraise) ==
    IF val \in DOMAIN ids
    THEN resolve_in(proto, ids[val].qmk_id)
    ELSE LET r == AnyKeycode_decode(proto, val)
         IN  IF r.ok THEN r ELSE [ok |-> TRUE, val |-> 0, err |-> None]

\* Keycode.deserialize of a string val while the class holds ids and proto:
\* [ok, val, err]; ok = FALSE is a raised exception
deserialize_in(ids, proto, val, reraise) ==
    IF val \in DOMAIN ids
    THEN resolve_in(proto, ids[val].qmk_id)
    ELSE LET r == AnyKeycode_decode(proto, val)
         IN  IF r.ok THEN r
             ELSE IF reraise THEN r
             ELSE [ok |-> TRUE, val |-> 0, err |-> None]

\* Keycode.resolve
resolve(qmk_constant) == resolve_in(protocol, qmk_constant)

\* Keycode.deserialize
deserialize(val, reraise) == deserialize_in(qmk_id_to_keycode, protocol, val, reraise)

\* Keycode.normalize: [ok, val, err], val is the text
normalize(code) ==
    LET r == deserialize(code, FALSE)
    IN  IF r.ok THEN [ok |-> TRUE, val |-> serialize(r.val), err |-> None] ELSE r

\* ------------------------------------------------------------ regeneration
Strip(qmk_id) == Replace(qmk_id, KC_SUFFIX, <<>>)

RECURSIVE dict_of_first(_, _, _, _)
\* a dict in which the first assignment to a key is the one that stays
dict_of_first(keys, vals, lo, hi) ==
    IF lo > hi THEN EmptyMap
    ELSE IF lo = hi THEN keys[lo] :> vals[lo]
    ELSE dict_of_first(keys, vals, lo, (lo + hi) \div 2) @@ dict_of_first(keys, vals, ((lo + hi) \div 2) + 1, hi)

RECURSIVE dict_of(_, _, _, _)
\* the dict after d[keys[i]] = vals[i] for i = lo..hi in order: a later i overwrites
\* (the range is split in halves to keep the evaluation shallow)
dict_of(keys, vals, lo, hi) ==
    IF lo > hi THEN EmptyMap
    ELSE IF lo = hi THEN keys[lo] :> vals[lo]
    ELSE dict_of(keys, vals, ((lo + hi) \div 2) + 1, hi) @@ dict_of(keys, vals, lo, (lo + hi) \div 2)

\* the loop of recreate_keycodes over keycodes, while the class holds ids and proto:
\* it ends at the first keycode whose deserialize raises, with the entries of the
\* keycodes before it in the maps
fill_maps(keycodes, ids, proto) ==
    LET raw == [i \in 1..Len(keycodes) |-> deserialize_in(ids, proto, keycodes[i].qmk_id, FALSE)]
        bad == {i \in 1..Len(keycodes) : ~raw[i].ok}
        stop == IF bad = {} THEN Len(keycodes) + 1 ELSE CHOOSE i \in bad : \A j \in bad : i <= j
    IN  [KEYCODES_MAP |-> dict_of([i \in 1..Len(keycodes) |-> Strip(keycodes[i].qmk_id)], keycodes, 1, stop - 1),
         RAWCODES_MAP |-> dict_of([i \in 1..Len(keycodes) |-> raw[i].val], keycodes, 1, stop - 1),
         raised |-> IF bad = {} THEN None ELSE Some(raw[stop].err)]

\* recreate_keycodes that resolves with the protocol of the call before
recreate_keycodes_stale(layers, taps, macros, users, midi, ids, proto) ==
    \E all \in {KEYCODES_SPECIAL \o KEYCODES_BASIC \o KEYCODES_SHIFTED \o KEYCODES_ISO \o layers
                \o KEYCODES_BOOT \o KEYCODES_MODIFIERS \o KEYCODES_QUANTUM \o KEYCODES_BACKLIGHT
                \o KEYCODES_MEDIA \o taps \o macros \o users \o KEYCODES_HIDDEN \o midi} :
        \E m \in {fill_maps(all, ids, protocol)} :
            /\ KEYCODES' = all
            /\ KEYCODES_MAP' = m.KEYCODES_MAP
            /\ RAWCODES_MAP' = m.RAWCODES_MAP
            /\ raised' = m.raised

\* recreate_keycodes that concatenates the hidden group before the tap-dance group
recreate_keycodes_hidden_first(layers, taps, macros, users, midi, ids, proto) ==
    \E all \in {KEYCODES_SPECIAL \o KEYCODES_BASIC \o KEYCODES_SHIFTED \o KEYCODES_ISO \o layers
                \o KEYCODES_BOOT \o KEYCODES_MODIFIERS \o KEYCODES_QUANTUM \o KEYCODES_BACKLIGHT
                \o KEYCODES_MEDIA \o KEYCODES_HIDDEN \o taps \o macros \o users \o midi} :
        \E m \in {fill_maps(all, ids, proto)} :
            /\ KEYCODES' = all
            /\ KEYCODES_MAP' = m.KEYCODES_MAP
            /\ RAWCODES_MAP' = m.RAWCODES_MAP
            /\ raised' = m.raised

\* recreate_keycodes, called when the group lists are layers, taps, macros, users and midi
\* and the class holds ids and proto
recreate_keycodes(layers, taps, macros, users, midi, ids, proto) ==
    \E all \in {KEYCODES_SPECIAL \o KEYCODES_BASIC \o KEYCODES_SHIFTED \o KEYCODES_ISO \o layers
                \o KEYCODES_BOOT \o KEYCODES_MODIFIERS \o KEYCODES_QUANTUM \o KEYCODES_BACKLIGHT
                \o KEYCODES_MEDIA \o taps \o macros \o users \o KEYCODES_HIDDEN \o midi} :
        \E m \in {fill_maps(all, ids, proto)} :
            /\ KEYCODES' = all
            /\ KEYCODES_MAP' = m.KEYCODES_MAP
            /\ RAWCODES_MAP' = m.RAWCODES_MAP
            /\ raised' = m.raised

\* create_user_keycodes
create_user_keycodes ==
    [x \in 1..GenericUsers |->
        K(UserId(x - 1), <<"User ">> \o Dec(x - 1), <<"User keycode ">> \o Dec(x - 1), FALSE, <<>>, <<>>)]

\* c_keycode.get(key, default)
Get(opt, default) == IF opt = None THEN default ELSE opt[1]

\* create_custom_user_keycodes
create_custom_user_keycodes(custom_keycodes) ==
    [x \in 1..Len(custom_keycodes) |->
        K(UserId(x - 1), Get(custom_keycodes[x].shortName, UserId(x - 1)),
          Get(custom_keycodes[x].title, UserId(x - 1)), FALSE, <<>>,
          << Get(custom_keycodes[x].name, UserId(x - 1)) >>)]

\* create_midi_keycodes that gives the advanced level the advanced set alone
create_midi_keycodes_split(midiSettingLevel) ==
    IF midiSettingLevel = "basic" THEN KEYCODES_MIDI_BASIC
    ELSE IF midiSettingLevel = "advanced" THEN KEYCODES_MIDI_ADVANCED ELSE <<>>

\* create_midi_keycodes
create_midi_keycodes(midiSettingLevel) ==
    (IF midiSettingLevel = "basic" \/ midiSettingLevel = "advanced" THEN KEYCODES_MIDI_BASIC ELSE <<>>)
    \o (IF midiSettingLevel = "advanced" THEN KEYCODES_MIDI_ADVANCED ELSE <<>>)

\* generate_keycodes_for_mask of recreate_keyboard_keycodes
generate_keycodes_for_mask(layers, kind, description) ==
    [layer \in 1..layers |->
        K(Paren(kind, Dec(layer - 1)), Paren(kind, Dec(layer - 1)), description, FALSE, <<>>, <<>>)]

\* min that returns its first argument
Min_first(a, b) == a

Min(a, b) == IF a < b THEN a ELSE b

\* the descriptors recreate_keyboard_keycodes puts into KEYCODES_LAYERS
layer_keycodes(layers) ==
    (IF layers >= FnLayers
     THEN << K(<<"FN_MO13">>, <<"Fn1", "(Fn3)">>, None, FALSE, <<>>, <<>>),
             K(<<"FN_MO23">>, <<"Fn2", "(Fn3)">>, None, FALSE, <<>>, <<>>) >>
     ELSE <<>>)
    \o generate_keycodes_for_mask(layers, "MO", <<"momentary layer">>)
    \o generate_keycodes_for_mask(layers, "DF", <<"default layer">>)
    \o generate_keycodes_for_mask(layers, "TG", <<"toggle layer">>)
    \o generate_keycodes_for_mask(layers, "TT", <<"tap toggle layer">>)
    \o generate_keycodes_for_mask(layers, "OSL", <<"one shot layer">>)
    \o generate_keycodes_for_mask(layers, "TO", <<"switch to layer">>)
    \o [x \in 1..Min(layers, LayerTapCap) |->
           K(LTId(x - 1), <<"LT ">> \o Dec(x - 1) \o KC_SUFFIX, <<"tap kc, hold layer ">> \o Dec(x - 1),
             TRUE, <<>>, <<>>)]

\* macro descriptors with one slot more than the keyboard reports
macro_keycodes_extra(macro_count) ==
    [x \in 1..(macro_count + 1) |-> K(MacroId(x - 1), MacroId(x - 1), None, FALSE, <<>>, <<>>)]

\* the descriptors it constructs for the macro slots
macro_keycodes(macro_count) ==
    [x \in 1..macro_count |-> K(MacroId(x - 1), MacroId(x - 1), None, FALSE, <<>>, <<>>)]

\* the descriptors it puts into KEYCODES_TAP_DANCE
tap_dance_keycodes(tap_dance_count) ==
    [x \in 1..tap_dance_count |-> K(TDLabel(x - 1), TDLabel(x - 1), <<"Tap dance keycode">>, FALSE, <<>>, <<>>)]

\* user descriptors when an empty list is told apart from an absent one
user_keycodes_distinct(custom_keycodes) ==
    IF custom_keycodes # None
    THEN create_custom_user_keycodes(custom_keycodes[1])
    ELSE create_user_keycodes

\* the descriptors it puts into KEYCODES_USER
user_keycodes(custom_keycodes) ==
    IF custom_keycodes # None /\ Len(custom_keycodes[1]) > 0
    THEN create_custom_user_keycodes(custom_keycodes[1])
    ELSE create_user_keycodes

\* recreate_keyboard_keycodes(keyboard) for the snapshot kb
recreate_keyboard_keycodes(kb) ==
    \E layers \in {layer_keycodes(kb.layers)}, macros \in {macro_keycodes(kb.macro_count)},
       taps \in {tap_dance_keycodes(kb.tap_dance_count)}, users \in {user_keycodes(kb.custom_keycodes)},
       midi \in {create_midi_keycodes(kb.midi)} :
        \E cls \in {construct_all([qmk_id_to_keycode |-> qmk_id_to_keycode,
                                   recorder_alias_to_keycode |-> recorder_alias_to_keycode,
                                   masked_keycodes |-> masked_keycodes, raised |-> None],
                                  layers \o macros \o taps \o users)} :
            /\ keyboard' = Some(kb)
            /\ repeated' = (keyboard = Some(kb))
            /\ UNCHANGED ui
            /\ returned' = None
            /\ protocol' = kb.vial_protocol
            /\ qmk_id_to_keycode' = cls.qmk_id_to_keycode
            /\ recorder_alias_to_keycode' = cls.recorder_alias_to_keycode
            /\ masked_keycodes' = cls.masked_keycodes
            /\ KEYCODES_LAYERS' = layers
            /\ KEYCODES_MACRO' = macros \o KEYCODES_MACRO_BASE
            /\ KEYCODES_TAP_DANCE' = taps
            /\ KEYCODES_USER' = users
            /\ KEYCODES_MIDI' = midi
            /\ recreate_keycodes(layers, taps, macros \o KEYCODES_MACRO_BASE, users, midi,
                                 cls.qmk_id_to_keycode, kb.vial_protocol)

\* ------------------------------------------------------ key override editor
\* KeyOverride.__init__ makes this many entries
AvailableEntries == 128

\* the check boxes of a ModsUI and of a LayersUI
ModChecks == 8

LayerChecks == 16

\* the check boxes of an OptionsUI, in the order of load and save
OptionChecks == 6

\* the smallest vial_protocol that has key overrides (protocol.constants)
VIAL_PROTOCOL_DYNAMIC == 4

\* the test of the bit above bit x
TestBit_next(data, x) == (data \div (2 ^ (x + 1))) % 2 = 1

\* bool(data & (1 << x)) for data >= 0
TestBit(data, x) == (data \div (2 ^ x)) % 2 = 1

RECURSIVE PackBits(_, _)
\* the loop of ModsUI.save and LayersUI.save over the first n check boxes
PackBits(chks, n) ==
    IF n = 0 THEN 0 ELSE BitOr(PackBits(chks, n - 1), IF chks[n] THEN 2 ^ (n - 1) ELSE 0)

\* self.widgets of a KeyOverrideEntryUI
Widgets == {"enable_chk", "layers", "options", "trigger_key", "trigger_mods", "negative_mods",
            "suppressed_mods", "key_replacement"}

\* the widgets that hold one value; the others hold a row of check boxes
Scalars == {"enable_chk", "trigger_key", "key_replacement"}

\* KeyOverrideEntryUI.__init__: nothing checked, no key, no signal blocked
KeyOverrideEntryUI_init ==
    [enable_chk |-> FALSE,
     layers |-> [x \in 1..LayerChecks |-> FALSE],
     options |-> [x \in 1..OptionChecks |-> FALSE],
     trigger_key |-> <<"KC_NO">>,
     trigger_mods |-> [x \in 1..ModChecks |-> FALSE],
     negative_mods |-> [x \in 1..ModChecks |-> FALSE],
     suppressed_mods |-> [x \in 1..ModChecks |-> FALSE],
     key_replacement |-> <<"KC_NO">>,
     blocked |-> {}]

\* KeyOverride.__init__
KeyOverride_init ==
    [keyboard |-> None, key_override_entries |-> 0, tabs |-> 0,
     key_override_entries_available |-> [x \in 1..AvailableEntries |-> KeyOverrideEntryUI_init]]

\* a widget w is given the value v: setChecked or set_keycode for a widget that holds
\* one value, a loop of setChecked over the check boxes of a row in index order
Setter(w, v) == [w |-> w, v |-> v]

\* the entry after the setter
Set(entry, st) == [entry EXCEPT ![st.w] = st.v]

\* the row when the loop has set the check boxes up to x
RowAfter(old, new, x) == [y \in 1..Len(old) |-> IF y <= x THEN new[y] ELSE old[y]]

\* the k-th smallest element of a set of numbers
Kth(set, k) == CHOOSE x \in set : Cardinality({y \in set : y <= x}) = k

\* the signals of the setter that reach KeyOverrideEntryUI.on_change, each as the entry
\* it finds: a check box or key widget emits when its value changes, the signal of a
\* check box of a row passes through the row's own signal, and the widget of
\* self.widgets emits nothing while it is blocked
signals(entry, st) ==
    IF st.w \in entry.blocked THEN <<>>
    ELSE IF st.w \in Scalars
    THEN IF entry[st.w] # st.v THEN << Set(entry, st) >> ELSE <<>>
    ELSE LET old == entry[st.w]
             changed == {x \in 1..Len(old) : old[x] # st.v[x]}
         IN  [k \in 1..Cardinality(changed) |->
                 [entry EXCEPT ![st.w] = RowAfter(old, st.v, Kth(changed, k))]]

RECURSIVE run_setters(_, _, _)
\* the setters from index i on, in order: the entry after them and, in emitted, the
\* entry as it is at each signal that gets through
run_setters(entry, setters, i) ==
    IF i > Len(setters) THEN [entry |-> entry, emitted |-> <<>>]
    ELSE LET rest == run_setters(Set(entry, setters[i]), setters, i + 1)
         IN  [entry |-> rest.entry, emitted |-> signals(entry, setters[i]) \o rest.emitted]

\* ModsUI.load and LayersUI.load of data into the n check boxes of widget w
load_bits(w, n, data) == Setter(w, [x \in 1..n |-> TestBit(data, x - 1)])

\* OptionsUI.load
OptionsUI_load(opt) ==
    Setter("options", << opt.activation_trigger_down, opt.activation_required_mod_down,
                         opt.activation_negative_mod_up, opt.one_mod, opt.no_reregister_trigger,
                         opt.no_unregister_on_other_key_down >>)

\* the setters of KeyOverrideEntryUI.load between the two blockSignals loops
load_setters(ko) ==
    << Setter("enable_chk", ko.options.enabled),
       Setter("trigger_key", ko.trigger),
       Setter("key_replacement", ko.replacement),
       load_bits("layers", LayerChecks, ko.layers),
       load_bits("trigger_mods", ModChecks, ko.trigger_mods),
       load_bits("negative_mods", ModChecks, ko.negative_mod_mask),
       load_bits("suppressed_mods", ModChecks, ko.suppressed_mods),
       OptionsUI_load(ko.options) >>

\* load that blocks no signal
KeyOverrideEntryUI_load_unblocked(entry, ko) == run_setters(entry, load_setters(ko), 1)

\* KeyOverrideEntryUI.load: the entry after it and the signals that got through
KeyOverrideEntryUI_load(entry, ko) ==
    LET r == run_setters([entry EXCEPT !.blocked = Widgets], load_setters(ko), 1)
    IN  [entry |-> [r.entry EXCEPT !.blocked = {}], emitted |-> r.emitted]

\* OptionsUI.save followed by ko.options.enabled = enable_chk.isChecked()
OptionsUI_save(entry) ==
    [activation_trigger_down |-> entry.options[1],
     activation_required_mod_down |-> entry.options[2],
     activation_negative_mod_up |-> entry.options[3],
     one_mod |-> entry.options[4],
     no_reregister_trigger |-> entry.options[5],
     no_unregister_on_other_key_down |-> entry.options[6],
     enabled |-> entry.enable_chk]

\* KeyOverrideEntryUI.save
KeyOverrideEntryUI_save(entry) ==
    [options |-> OptionsUI_save(entry),
     trigger |-> entry.trigger_key,
     replacement |-> entry.key_replacement,
     layers |-> PackBits(entry.layers, LayerChecks),
     trigger_mods |-> PackBits(entry.trigger_mods, ModChecks),
     negative_mod_mask |-> PackBits(entry.negative_mods, ModChecks),
     suppressed_mods |-> PackBits(entry.suppressed_mods, ModChecks)]

\* on_change that leaves the last entry out
KeyOverride_on_change_short(entries, shown) ==
    [x \in 1..(shown - 1) |-> [x |-> x - 1, ko |-> KeyOverrideEntryUI_save(entries[x])]]

\* KeyOverride.on_change: the key_override_set calls, in order, while the first shown
\* entries of entries are self.key_override_entries
KeyOverride_on_change(entries, shown) ==
    [x \in 1..shown |-> [x |-> x - 1, ko |-> KeyOverrideEntryUI_save(entries[x])]]

\* len(lst[:stop]) for a list of n elements and stop >= 0
SliceLen(n, stop) == IF stop < n THEN stop ELSE n

\* key override entries a keyboard holds; the second has bits beyond the check boxes
KO_A ==
    [options |-> [activation_trigger_down |-> TRUE, activation_required_mod_down |-> FALSE,
                  activation_negative_mod_up |-> FALSE, one_mod |-> FALSE,
                  no_reregister_trigger |-> FALSE, no_unregister_on_other_key_down |-> TRUE,
                  enabled |-> TRUE],
     trigger |-> <<"KC_A">>, replacement |-> <<"KC_5">>,
     layers |-> 65535, trigger_mods |-> 2, negative_mod_mask |-> 0, suppressed_mods |-> 2]

KO_B ==
    [options |-> [activation_trigger_down |-> FALSE, activation_required_mod_down |-> TRUE,
                  activation_negative_mod_up |-> FALSE, one_mod |-> TRUE,
                  no_reregister_trigger |-> FALSE, no_unregister_on_other_key_down |-> FALSE,
                  enabled |-> FALSE],
     trigger |-> <<"KC_NO">>, replacement |-> <<"KC_A">>,
     layers |-> 131070, trigger_mods |-> 511, negative_mod_mask |-> 128, suppressed_mods |-> 256]

\* keyboard.key_override_get(x)
key_override_get(kb, x) == IF kb.image = "a" \/ x % 2 = 1 THEN KO_A ELSE KO_B

\* KeyOverride.valid for the device
valid(device) ==
    /\ device.vial
    /\ device.keyboard # None
    /\ device.keyboard[1].vial_protocol >= VIAL_PROTOCOL_DYNAMIC
    /\ device.keyboard[1].key_override_count > 0

RECURSIVE load_writes(_, _, _, _, _)
\* the runs of KeyOverride.on_change that the loads of the entries lo..hi of rebuild_ui
\* set off: the entries before the one that emits are loaded, the ones after it are not
\* (the range is split in halves to keep the evaluation shallow)
load_writes(loaded, available, n, lo, hi) ==
    IF lo > hi THEN <<>>
    ELSE IF lo = hi
    THEN [k \in 1..Len(loaded[lo].emitted) |->
            KeyOverride_on_change([y \in 1..AvailableEntries |->
                                      IF y < lo THEN loaded[y].entry
                                      ELSE IF y = lo THEN loaded[lo].emitted[k]
                                      ELSE available[y]], n)]
    ELSE load_writes(loaded, available, n, lo, (lo + hi) \div 2)
         \o load_writes(loaded, available, n, ((lo + hi) \div 2) + 1, hi)

\* KeyOverride.rebuild_ui for the keyboard kb: the editor after it and the runs of
\* on_change during it
rebuild_ui(ed, kb) ==
    LET available == ed.key_override_entries_available
        n == SliceLen(AvailableEntries, kb.key_override_count)
        loaded == [x \in 1..AvailableEntries |->
                      IF x <= n THEN KeyOverrideEntryUI_load(available[x], key_override_get(kb, x - 1))
                      ELSE [entry |-> available[x], emitted |-> <<>>]]
    IN  [editor |-> [keyboard |-> Some(kb), key_override_entries |-> n, tabs |-> n,
                     key_override_entries_available |-> [x \in 1..AvailableEntries |-> loaded[x].entry]],
         writes |-> IF \A x \in 1..n : loaded[x].emitted = <<>> THEN <<>>
                    ELSE load_writes(loaded, available, n, 1, n)]

\* KeyOverride.rebuild(device)
KeyOverride_rebuild(ed, device) ==
    IF valid(device) THEN rebuild_ui(ed, device.keyboard[1]) ELSE [editor |-> ed, writes |-> <<>>]

\* the user changes widgets of the shown entry e: the editor after the setters and the
\* runs of on_change they set off
user_edit(ed, e, setters) ==
    LET available == ed.key_override_entries_available
        r == run_setters(available[e], setters, 1)
    IN  [editor |-> [ed EXCEPT !.key_override_entries_available[e] = r.entry],
         writes |-> [k \in 1..Len(r.emitted) |->
                        KeyOverride_on_change([available EXCEPT ![e] = r.emitted[k]],
                                              ed.key_override_entries)]]

\* ------------------------------------------------------------------ inputs
Protocols == {5, 6}

LayerCounts == {1, FnLayers}

MidiLevels == {"none", "basic", "advanced"}

CustomEntry1 == [shortName |-> Some(<<"CK1">>), title |-> Some(<<"Custom key 1">>), name |-> Some(<<"CUSTOM_1">>)]

CustomEntry2 == [shortName |-> None, title |-> None, name |-> None]

\* keyboard.custom_keycodes: None, an empty list, a list of two entries, a list with
\* one entry more than the protocol tables have USERnn ids
CustomLists == {None, Some(<<>>), Some(<<CustomEntry1, CustomEntry2>>),
                Some([x \in 1..(TableUsers + 1) |-> IF x = 1 THEN CustomEntry1 ELSE CustomEntry2])}

Keyboards == [vial_protocol : Protocols, layers : LayerCounts, macro_count : {0, MaxMacro},
              tap_dance_count : {0, MaxTapDance}, custom_keycodes : CustomLists, midi : MidiLevels]

\* the snapshots the device can report next: the first one is arbitrary, a later one
\* repeats the last or differs from it in one capability
NextKeyboards ==
    IF keyboard = None THEN Keyboards
    ELSE {kb \in Keyboards :
            Cardinality({f \in {"vial_protocol", "layers", "macro_count", "tap_dance_count",
                                "custom_keycodes", "midi"} : kb[f] # keyboard[1][f]}) <= 1}

Init ==
    /\ protocol = 0
    /\ masked_keycodes = ImportedClass.masked_keycodes
    /\ recorder_alias_to_keycode = ImportedClass.recorder_alias_to_keycode
    /\ qmk_id_to_keycode = ImportedClass.qmk_id_to_keycode
    /\ KEYCODES_LAYERS = <<>>
    /\ KEYCODES_MACRO = <<>>
    /\ KEYCODES_TAP_DANCE = <<>>
    /\ KEYCODES_USER = <<>>
    /\ KEYCODES_MIDI = <<>>
    /\ KEYCODES = <<>>
    /\ KEYCODES_MAP = EmptyMap
    /\ RAWCODES_MAP = EmptyMap
    /\ keyboard = None
    /\ raised = None
    /\ repeated = FALSE
    /\ editor = KeyOverride_init
    /\ writes = [handler |-> "__init__", runs |-> <<>>]
    /\ dialog = None
    /\ returned = None

Recreate == \E kb \in NextKeyboards : recreate_keyboard_keycodes(kb)

Next == Recreate

Spec == Init /\ [][Next]_vars

\* ------------------------------------------- keyboards around the layer limits
\* layer counts on both sides of the FN_MO boundary and of the layer-tap cap; the MIDI
\* levels and a setting that is none of them
LayerSteps == {FnLayers - 1, FnLayers, LayerTapCap, LayerTapCap + 1}

LayerKeyboards == [vial_protocol : Protocols, layers : LayerSteps, macro_count : {0},
                   tap_dance_count : {0}, custom_keycodes : {None},
                   midi : MidiLevels \cup {"full"}]

RecreateLayers == \E kb \in LayerKeyboards : recreate_keyboard_keycodes(kb)

NextLayers == RecreateLayers

SpecLayers == Init /\ [][NextLayers]_vars

\* ------------------------------------------------------ calls of the methods
\* the strings the methods are called with
Texts ==
    { <<"kc">>, <<"LSFT">>, Paren("LSFT", <<"KC_A">>), Paren("LSFT", <<"kc">>), <<"LSFT", "(", "KC_A">>,
      <<"LT", "3", "(", "KC_A", ")">>, TDLabel(0), <<"KC_TRANSPARENT">>, <<"KC_NONUS_HASH">>,
      <<"RESET">>, <<"garbage">>, Paren("MO", <<"1">>), Paren("OSM", <<"MOD_LSFT">>), <<"KC_X3">> }

\* the integers serialize is called with
Codes == {-1, 0, 4, 516, 8708, 17156, 22272, 25092, 65540, 66052}

\* descriptors constructed after the import: the first claims a recorder alias of KC_A,
\* the second a new alias and one of KC_PAUSE, the third the new alias only
ExtraKeycodes ==
    { K(<<"KC_X1">>, <<"X1">>, None, FALSE, << <<"a">> >>, <<>>),
      K(<<"KC_X2">>, <<"X2">>, None, FALSE, << <<"z">>, <<"break">> >>, <<>>),
      K(<<"KC_X3">>, <<"X3">>, None, FALSE, << <<"z">> >>, <<>>) }

\* a call of find("kc") that stores the KC_NO descriptor under "kc"
Call_caching(op, arg, result) ==
    /\ returned = None
    /\ returned' = Some([op |-> op, arg |-> arg, result |-> result])
    /\ KEYCODES_MAP' = IF op = "find" /\ arg = <<"kc">> /\ result # None
                        THEN Put(KEYCODES_MAP, <<"kc">>, result[1])
                        ELSE KEYCODES_MAP
    /\ UNCHANGED <<protocol, masked_keycodes, recorder_alias_to_keycode, qmk_id_to_keycode,
                   KEYCODES_LAYERS, KEYCODES_MACRO, KEYCODES_TAP_DANCE, KEYCODES_USER, KEYCODES_MIDI,
                   KEYCODES, RAWCODES_MAP, keyboard, raised, repeated, ui>>

\* a method that assigns nothing returns result for the argument arg; the one thread of
\* control makes a call when it has taken the result of the call before
Call(op, arg, result) ==
    /\ returned = None
    /\ returned' = Some([op |-> op, arg |-> arg, result |-> result])
    /\ UNCHANGED <<registry, keyboard, raised, repeated, ui>>

CallFind == \E s \in Texts : Call("find", s, find(s))

CallFindOuter == \E s \in Texts : Call("find_outer_keycode", s, find_outer_keycode(s))

CallFindInner == \E s \in Texts : Call("find_inner_keycode", s, find_inner_keycode(s))

CallIsMask == \E s \in Texts : Call("is_mask", s, is_mask(s))

CallLabel == \E s \in Texts : Call("label", s, label(s))

CallTooltip == \E s \in Texts : Call("tooltip", s, tooltip(s))

CallSerialize == \E code \in Codes : Call("serialize", code, serialize(code))

CallDeserialize == \E s \in Texts, reraise \in BOOLEAN : Call("deserialize", <<s, reraise>>, deserialize(s, reraise))

CallNormalize == \E s \in Texts : Call("normalize", s, normalize(s))

CallResolve == \E s \in Texts : Call("resolve", s, resolve(s))

\* Keycode(...) called after the import
Construct ==
    \E d \in ExtraKeycodes :
        /\ returned = None
        /\ Cardinality({e \in ExtraKeycodes : e.qmk_id \in DOMAIN qmk_id_to_keycode}) < MaxExtra
        /\ \E cls \in {Keycode_init([qmk_id_to_keycode |-> qmk_id_to_keycode,
                                      recorder_alias_to_keycode |-> recorder_alias_to_keycode,
                                      masked_keycodes |-> masked_keycodes, raised |-> None], d)} :
            /\ qmk_id_to_keycode' = cls.qmk_id_to_keycode
            /\ recorder_alias_to_keycode' = cls.recorder_alias_to_keycode
            /\ masked_keycodes' = cls.masked_keycodes
            /\ returned' = Some([op |-> "Keycode", arg |-> d,
                                 result |-> [ok |-> cls.raised = None, val |-> 0,
                                             err |-> IF cls.raised = None THEN None ELSE cls.raised[1]]])
        /\ UNCHANGED <<protocol, KEYCODES_LAYERS, KEYCODES_MACRO, KEYCODES_TAP_DANCE, KEYCODES_USER,
                       KEYCODES_MIDI, KEYCODES, KEYCODES_MAP, RAWCODES_MAP, keyboard, raised, repeated, ui>>

OpsKeyboards == [vial_protocol : Protocols, layers : LayerCounts, macro_count : {0},
                 tap_dance_count : {MaxTapDance}, custom_keycodes : {None}, midi : {"none"}]

RecreateOps == returned = None /\ \E kb \in OpsKeyboards : recreate_keyboard_keycodes(kb)

\* Keycode.protocol = p, assigned on its own
SetProtocol ==
    \E p \in Protocols :
        /\ returned = None
        /\ protocol' = p
        /\ returned' = Some([op |-> "protocol", arg |-> p, result |-> None])
        /\ UNCHANGED <<masked_keycodes, recorder_alias_to_keycode, qmk_id_to_keycode,
                       KEYCODES_LAYERS, KEYCODES_MACRO, KEYCODES_TAP_DANCE, KEYCODES_USER, KEYCODES_MIDI,
                       KEYCODES, KEYCODES_MAP, RAWCODES_MAP, keyboard, raised, repeated, ui>>

\* the caller takes the result
Take == returned # None /\ returned' = None /\ UNCHANGED <<registry, keyboard, raised, repeated, ui>>

NextOps ==
    \/ RecreateOps
    \/ Construct
    \/ CallFind
    \/ CallFindOuter
    \/ CallFindInner
    \/ CallIsMask
    \/ CallLabel
    \/ CallTooltip
    \/ CallSerialize
    \/ CallDeserialize
    \/ CallNormalize
    \/ CallResolve
    \/ SetProtocol
    \/ Take

SpecOps == Init /\ [][NextOps]_vars

\* ------------------------------------------------ the key override editor
\* the keyboards the editor is rebuilt for: without and with key overrides, with more
\* of them than the editor has entries
MaxOverrides == 2

\* the widgets of one entry the user changes between two rebuilds
MaxEdits == 2

EditorKeyboards ==
    [vial_protocol : {VIAL_PROTOCOL_DYNAMIC}, key_override_count : {MaxOverrides}, image : {"a", "b"}]
    \cup {[vial_protocol |-> VIAL_PROTOCOL_DYNAMIC, key_override_count |-> AvailableEntries + 1, image |-> "b"],
          [vial_protocol |-> VIAL_PROTOCOL_DYNAMIC - 1, key_override_count |-> MaxOverrides, image |-> "a"],
          [vial_protocol |-> VIAL_PROTOCOL_DYNAMIC, key_override_count |-> 0, image |-> "a"]}

\* the devices the editor is rebuilt for: the keyboards, a device that is no Vial
\* keyboard and one without a keyboard
Devices ==
    {[vial |-> TRUE, keyboard |-> Some(kb)] : kb \in EditorKeyboards}
    \cup {[vial |-> FALSE, keyboard |-> Some(CHOOSE kb \in EditorKeyboards : valid([vial |-> TRUE, keyboard |-> Some(kb)]))],
          [vial |-> TRUE, keyboard |-> None]}

Rebuild ==
    \E device \in Devices :
        \E r \in {KeyOverride_rebuild(editor, device)} :
            /\ editor' = r.editor
            /\ writes' = [handler |-> IF valid(device) THEN "rebuild_ui" ELSE "rebuild",
                          runs |-> r.writes]
            /\ UNCHANGED <<registry, keyboard, raised, repeated, returned, dialog>>

Entry(e) == editor.key_override_entries_available[e]

\* the widgets of the entry in tab e that differ from what rebuild_ui loaded
Dirty(e) ==
    LET loaded == KeyOverrideEntryUI_load(KeyOverrideEntryUI_init,
                                          key_override_get(editor.keyboard[1], e - 1)).entry
    IN  {w \in Widgets : Entry(e)[w] # loaded[w]}

\* the user acts on widgets of the entry in tab e, which runs handler; on a keyboard
\* with more overrides than MaxOverrides one widget is changed between two rebuilds
Edit(handler, e, setters) ==
    /\ Cardinality(Dirty(e)) < (IF editor.key_override_entries > MaxOverrides THEN 1 ELSE MaxEdits)
    /\ \E r \in {user_edit(editor, e, setters)} :
        /\ editor' = r.editor
        /\ writes' = [handler |-> handler, runs |-> r.writes]
        /\ UNCHANGED <<registry, keyboard, raised, repeated, returned, dialog>>

\* a click on the check box of the first or of the last tab
ClickEnable ==
    \E e \in {1, editor.tabs} :
        e \in 1..editor.tabs /\ Edit("on_change", e, << Setter("enable_chk", ~Entry(e).enable_chk) >>)

ClickLayer == editor.tabs >= 1 /\ Edit("on_change", 1, << Setter("layers", [Entry(1).layers EXCEPT ![1] = ~@]) >>)

\* LayersUI.on_enable_all_layers
EnableAllLayers == editor.tabs >= 1 /\ Edit("on_enable_all_layers", 1, << Setter("layers", [x \in 1..LayerChecks |-> TRUE]) >>)

\* LayersUI.on_disable_all_layers
DisableAllLayers == editor.tabs >= 1 /\ Edit("on_disable_all_layers", 1, << Setter("layers", [x \in 1..LayerChecks |-> FALSE]) >>)

ClickMod ==
    editor.tabs >= 1 /\ Edit("on_change", 1, << Setter("negative_mods", [Entry(1).negative_mods EXCEPT ![ModChecks] = ~@]) >>)

ClickOption == editor.tabs >= 1 /\ Edit("on_change", 1, << Setter("options", [Entry(1).options EXCEPT ![4] = ~@]) >>)

\* the user picks a key in the trigger key widget
PickKey ==
    editor.tabs >= 1 /\ \E kc \in {<<"KC_A">>, <<"KC_5">>} : Edit("on_change", 1, << Setter("trigger_key", kc) >>)

NextOverride ==
    \/ Rebuild
    \/ ClickEnable
    \/ ClickLayer
    \/ EnableAllLayers
    \/ DisableAllLayers
    \/ ClickMod
    \/ ClickOption
    \/ PickKey

SpecOverride == Init /\ [][NextOverride]_vars

\* ------------------------------------------------------ the any-keycode dialog
\* the texts of lbl_computed
Enter == "Enter an expression"

InvalidErr(err) == <<"Invalid input: ", err>>

Computed(value) == <<"Computed value: ", hex(value)>>

Invalid == "Invalid input"

\* on_change that enables the OK button for every text that is not empty
AnyKeycodeDialog_on_change_lenient(dlg) ==
    [dlg EXCEPT !.ok_enabled = (dlg.txt_entry # <<>>), !.on_changes = @ + 1]

\* the branches of on_change (lines 42-55) for the entry text and what deserialize gave
on_change_branches(dlg, text, value, err) ==
    LET d == IF text = <<>>
             THEN [dlg EXCEPT !.value = <<>>, !.lbl_computed = Enter]
             ELSE IF err # None /\ err[1] # ""
             THEN [dlg EXCEPT !.value = <<>>, !.lbl_computed = InvalidErr(err[1])]
             ELSE IF value # None
             THEN [dlg EXCEPT !.value = serialize(value[1]), !.lbl_computed = Computed(value[1])]
             ELSE [dlg EXCEPT !.value = <<>>, !.lbl_computed = Invalid]
    IN  [d EXCEPT !.ok_enabled = (d.value # <<>>), !.on_changes = @ + 1]

\* value and err of on_change (lines 36-40) for what deserialize(text, reraise=True) did
Caught(r) == [value |-> IF r.ok THEN Some(r.val) ELSE None,
              err |-> IF r.ok THEN None ELSE Some(r.err[2])]

\* AnyKeycodeDialog.on_change on the dialog dlg = [txt_entry, value, lbl_computed,
\* ok_enabled, on_changes]; value and txt_entry are strings, "" is <<>>
AnyKeycodeDialog_on_change(dlg) ==
    LET c == Caught(deserialize(dlg.txt_entry, TRUE))
    IN  on_change_branches(dlg, dlg.txt_entry, c.value, c.err)

\* txt_entry.setText(text): textChanged runs on_change when the text changes
setText(dlg, text) ==
    IF dlg.txt_entry = text THEN dlg
    ELSE AnyKeycodeDialog_on_change([dlg EXCEPT !.txt_entry = text])

\* AnyKeycodeDialog(initial); on_changes counts the runs of on_change in the last handler
AnyKeycodeDialog_init(initial) ==
    AnyKeycodeDialog_on_change(
        setText([txt_entry |-> <<>>, value |-> initial, lbl_computed |-> "", ok_enabled |-> TRUE,
                 on_changes |-> 0], initial))

\* the texts the dialog is opened with and the user types
DialogTexts == Texts \cup {<<>>, hex(4), hex(516), hex(66052), <<"0x">>, <<"KC_X1">>}

\* the dialog is opened
Open ==
    \E initial \in DialogTexts :
        /\ dialog = None /\ returned = None
        /\ \E d \in {AnyKeycodeDialog_init(initial)} : dialog' = Some(d)
        /\ UNCHANGED <<registry, keyboard, raised, repeated, returned, editor, writes>>

\* the user changes the text of the open dialog
Type ==
    \E text \in DialogTexts :
        /\ dialog # None /\ text # dialog[1].txt_entry
        /\ \E d \in {setText([dialog[1] EXCEPT !.on_changes = 0], text)} : dialog' = Some(d)
        /\ UNCHANGED <<registry, keyboard, raised, repeated, returned, editor, writes>>

\* OK, which can be clicked while it is enabled
Accept ==
    /\ dialog # None /\ dialog[1].ok_enabled
    /\ dialog' = None
    /\ UNCHANGED <<registry, keyboard, raised, repeated, returned, editor, writes>>

\* Cancel
Reject ==
    /\ dialog # None
    /\ dialog' = None
    /\ UNCHANGED <<registry, keyboard, raised, repeated, returned, editor, writes>>

\* the keycodes are rebuilt and constructed between two dialogs
RecreateDialog == dialog = None /\ RecreateOps

ConstructDialog == dialog = None /\ Construct

NextDialog ==
    \/ RecreateDialog
    \/ ConstructDialog
    \/ Take
    \/ Open
    \/ Type
    \/ Accept
    \/ Reject

SpecDialog == Init /\ [][NextDialog]_vars

\* ------------------------------------------------------------- properties
\* the descriptors of the list the last rebuild assembled
AllKeycodes == {KEYCODES[i] : i \in 1..Len(KEYCODES)}

\* the descriptors the id lookup holds
Registered == Range(KEYCODES_MAP)

Aliases(d) == {d.alias[j] : j \in 1..Len(d.alias)}

\* every descriptor of KEYCODES has its entry in both maps
CompleteGeneration(keycodes, by_id, by_raw, proto) ==
    \A i \in 1..Len(keycodes) :
        /\ Strip(keycodes[i].qmk_id) \in DOMAIN by_id
        /\ resolve_in(proto, keycodes[i].qmk_id).ok
        /\ resolve_in(proto, keycodes[i].qmk_id).val \in DOMAIN by_raw

\* C1: a step of the registry leaves KEYCODES_MAP and RAWCODES_MAP as they were (the
\* complete previous generation) or makes them the complete new generation: every
\* descriptor of the rebuilt KEYCODES has its entry in both maps and no error was raised.
C1_AtomicRebuild ==
    [][ \/ KEYCODES_MAP' = KEYCODES_MAP /\ RAWCODES_MAP' = RAWCODES_MAP
        \/ raised' = None /\ CompleteGeneration(KEYCODES', KEYCODES_MAP', RAWCODES_MAP', protocol') ]_vars

C3_RoundTrip ==
    \A d \in AllKeycodes :
        resolve(d.qmk_id).ok
        => LET back == deserialize(serialize(resolve(d.qmk_id).val), TRUE)
           IN  back.ok /\ back.val = resolve(d.qmk_id).val

C3_Witness ==
    /\ raised = None
    /\ \E d \in AllKeycodes :
        /\ d.qmk_id = <<"KC_PERC">>
        /\ serialize(resolve(d.qmk_id).val) = Paren("LSFT", <<"KC_5">>)
        /\ deserialize(Paren("LSFT", <<"KC_5">>), TRUE).val = resolve(d.qmk_id).val

\* raw value of the composite of outer and inner
Composite(outer, inner) ==
    BitOr(AndFF00(resolve(outer.qmk_id).val), And00FF(resolve(inner.qmk_id).val))

Composed(outer, inner) == Replace(outer.qmk_id, <<"kc">>, inner.qmk_id)

\* C4 as stated: for every masked outer and every plain inner, both resolvable,
\* serialize of their composite is outer.id with "kc" replaced by inner.id.
C4_Original ==
    \A outer \in {d \in AllKeycodes : d.masked /\ resolve(d.qmk_id).ok} :
        \A inner \in {d \in AllKeycodes : ~d.masked /\ resolve(d.qmk_id).ok} :
            serialize(Composite(outer, inner)) = Composed(outer, inner)

\* C4: for every masked outer and every plain inner, both resolvable, both the
\* descriptors RAWCODES_MAP holds for their raw values, and the raw value of inner at
\* most 0xFF, serialize of their composite is outer.id with "kc" replaced by inner.id.
C4_ComposeLowByte ==
    \A outer \in {d \in AllKeycodes : d.masked /\ resolve(d.qmk_id).ok} :
        \A inner \in {d \in AllKeycodes : ~d.masked /\ resolve(d.qmk_id).ok} :
            ( /\ resolve(inner.qmk_id).val <= 255
              /\ resolve(outer.qmk_id).val \in DOMAIN RAWCODES_MAP
              /\ RAWCODES_MAP[resolve(outer.qmk_id).val] = outer
              /\ resolve(inner.qmk_id).val \in DOMAIN RAWCODES_MAP
              /\ RAWCODES_MAP[resolve(inner.qmk_id).val] = inner )
            => serialize(Composite(outer, inner)) = Composed(outer, inner)

C4_Witness ==
    \E outer, inner \in AllKeycodes :
        /\ outer.qmk_id = LTId(3) /\ inner.qmk_id = <<"KC_A">>
        /\ RAWCODES_MAP[resolve(outer.qmk_id).val] = outer
        /\ RAWCODES_MAP[resolve(inner.qmk_id).val] = inner
        /\ serialize(Composite(outer, inner)) = <<"LT", "3", "(", "KC_A", ")">>


\* the descriptors of the generation the lookups hold: all of KEYCODES after a rebuild
\* that returned, the ones the id lookup received after one that raised
Generation == IF raised = None THEN AllKeycodes ELSE Registered

\* C5 as stated: for every descriptor d of the generation and every a in d.alias,
\* find(a) returns d.
C5_Original ==
    \A d \in Generation : \A a \in Aliases(d) : find(a) = Some(d)

\* C5: the id lookup has one key per descriptor, its id with "(kc)" removed: for every
\* descriptor d of the generation find of that key returns d, or the later descriptor of
\* KEYCODES that has the same id; an alias of d that is no such key is not found.
C5_FindByStrippedId ==
    /\ DOMAIN KEYCODES_MAP = {Strip(d.qmk_id) : d \in Generation}
    /\ \A i \in 1..Len(KEYCODES) :
        KEYCODES[i] \in Generation
        => \/ find(Strip(KEYCODES[i].qmk_id)) = Some(KEYCODES[i])
           \/ \E j \in (i + 1)..Len(KEYCODES) :
                /\ KEYCODES[j].qmk_id = KEYCODES[i].qmk_id
                /\ find(Strip(KEYCODES[i].qmk_id)) = Some(KEYCODES[j])
    /\ \A d \in Generation : \A a \in Aliases(d) :
        a \notin {Strip(e.qmk_id) : e \in Generation} => find(a) = None

C5_Witness ==
    /\ raised = None
    /\ Len(KEYCODES_TAP_DANCE) > 0
    /\ find(TDLabel(0)) = Some(KEYCODES_HIDDEN[1])
    /\ KEYCODES_TAP_DANCE[1] # KEYCODES_HIDDEN[1]
    /\ find(<<"KC_TRNS">>) = Some(KEYCODES_SPECIAL[2])
    /\ find(<<"KC_TRANSPARENT">>) = None
    /\ find(<<"C_S">>) = Some(KEYCODES_MODIFIERS[3])

\* the strings find is asked for
FindProbes ==
    DOMAIN KEYCODES_MAP
    \cup UNION {Aliases(d) : d \in AllKeycodes}
    \cup { <<"kc">>, <<"LSFT">>, <<"LT", "0">>, <<"KC_NO">>, UserId(TableUsers), <<>>, <<"KC_Z">> }

\* C6 as stated: if find(s) returns d then d.id = s, except that "kc" returns KC_NO;
\* and find(d.id) returns a descriptor whose id is d.id.
C6_Original ==
    /\ \A s \in FindProbes :
        find(s) # None => \/ find(s)[1].qmk_id = s
                          \/ s = <<"kc">> /\ find(s)[1].qmk_id = <<"KC_NO">>
    /\ \A d \in Generation : find(d.qmk_id) # None /\ find(d.qmk_id)[1].qmk_id = d.qmk_id

\* C6: find looks the string up among the ids with "(kc)" removed: if find(s) returns d
\* then d.id without "(kc)" is s, or s is "kc" and d is the KC_NO descriptor; "kc"
\* returns what "KC_NO" returns; for every descriptor d of the generation find of d.id
\* without "(kc)" returns a descriptor whose id is d.id, and find of the id of a masked
\* d, "(kc)" included, returns nothing.
C6_FindExactStripped ==
    /\ \A s \in FindProbes :
        find(s) # None => \/ Strip(find(s)[1].qmk_id) = s
                          \/ s = <<"kc">> /\ find(s)[1].qmk_id = <<"KC_NO">>
    /\ find(<<"kc">>) = find(<<"KC_NO">>)
    /\ \A d \in Generation :
        /\ find(Strip(d.qmk_id)) # None
        /\ find(Strip(d.qmk_id))[1].qmk_id = d.qmk_id
        /\ EndsWith(d.qmk_id, KC_SUFFIX) => find(d.qmk_id) = None

C6_Witness ==
    /\ find(<<"LSFT">>) = Some(KEYCODES_MODIFIERS[2])
    /\ find(Paren("LSFT", <<"kc">>)) = None
    /\ find(<<"kc">>) = Some(KEYCODES_SPECIAL[1])
    /\ find(<<"LT", "0">>) # None /\ find(<<"LT", "0">>)[1].qmk_id = LTId(0)

\* the strings deserialize is asked for
TextProbes ==
    { <<>>, <<"garbage">>, Paren("LSFT", <<"garbage">>), Paren("NOPE", <<"KC_A">>), <<"0x", "zz">>,
      <<"LSFT", "(", "KC_A">>, UserId(TableUsers), <<"KC_TRANSPARENT">>, Paren("LSFT", <<"KC_5">>),
      <<"0x", "2", "2", "2">>, <<"KC_A">>, <<"CUSTOM_1">> }

\* C7: for a string that is not a known id and that the fallback fails on, deserialize
\* returns 0 when reraise is false and raises the error of the fallback when it is true.
C7_Reraise ==
    \A s \in TextProbes :
        (s \notin DOMAIN qmk_id_to_keycode /\ ~AnyKeycode_decode(protocol, s).ok)
        => /\ deserialize(s, FALSE) = [ok |-> TRUE, val |-> 0, err |-> None]
           /\ deserialize(s, TRUE) = AnyKeycode_decode(protocol, s)
           /\ ~deserialize(s, TRUE).ok

C7_Witness ==
    /\ keyboard # None /\ raised = None
    /\ UserId(TableUsers) \notin DOMAIN qmk_id_to_keycode
    /\ deserialize(UserId(TableUsers), FALSE).val = 0
    /\ deserialize(UserId(TableUsers), TRUE) = [ok |-> FALSE, val |-> 0, err |-> DecodeError]
    /\ deserialize(Paren("LSFT", <<"garbage">>), TRUE).err = DecodeError

\* the integers serialize is asked for
RawProbes ==
    { -65019, -17000, -1, 0, 5, 255, 517, 16383, 17156, 17407, 24338, 22273, 65535, 65540, 1048581 }

\* serialize(raw) takes none of its two lookups
HexCase(raw) ==
    \/ AndFF00(raw) \notin active_masked /\ raw \notin DOMAIN RAWCODES_MAP
    \/ /\ AndFF00(raw) \in active_masked
       /\ AndFF00(raw) \notin DOMAIN RAWCODES_MAP \/ And00FF(raw) \notin DOMAIN RAWCODES_MAP

\* C8: when serialize(raw) takes none of its two lookups it returns a hexadecimal
\* literal text with int(text, 16) = raw.
C8_HexFallback ==
    \A raw \in RawProbes :
        HexCase(raw) => /\ IsHexLiteral(serialize(raw))
                        /\ IntBase16(serialize(raw)) = raw

C8_Witness ==
    /\ keyboard # None /\ keyboard[1].layers = 1 /\ raised = None
    /\ HexCase(17156) /\ serialize(17156) = <<"0x", "4", "3", "0", "4">>
    /\ HexCase(-65019) /\ serialize(-65019) = <<"-", "0x", "f", "d", "f", "b">>
    /\ HexCase(1048581) /\ IntBase16(serialize(1048581)) = 1048581
    /\ ~HexCase(0)

\* C9: normalize(normalize(x)) = normalize(x) for every id and alias x of a
\* descriptor of KEYCODES that normalize accepts.
C9_NormalizeIdempotent ==
    \A d \in AllKeycodes : \A x \in Aliases(d) :
        normalize(x).ok => normalize(normalize(x).val) = normalize(x)

C9_Witness ==
    /\ raised = None
    /\ \E d \in AllKeycodes : d.qmk_id = <<"KC_PERC">>
    /\ normalize(<<"KC_PERC">>).val = Paren("LSFT", <<"KC_5">>)
    /\ normalize(Paren("LSFT", <<"KC_5">>)).val = Paren("LSFT", <<"KC_5">>)
    /\ normalize(<<"KC_TRANSPARENT">>).val = <<"KC_TRNS">>

LayerActionIds(n) == {Paren(LayerKinds[k], Dec(x)) : k \in 1..6, x \in 0..(n - 1)}

FnIds == { <<"FN_MO13">>, <<"FN_MO23">> }

\* C11: after recreate_keyboard_keycodes with n layers KEYCODES_LAYERS holds exactly the
\* 6*n plain layer actions MO, DF, TG, TT, OSL, TO of the layers 0..n-1, FN_MO13 and
\* FN_MO23 iff n >= 4, and the masked LTx(kc) of the layers below min(n, 16), whatever
\* the snapshots before were.
C11_LayerGroup ==
    keyboard # None
    => LET n == keyboard[1].layers
           taps == IF n < LayerTapCap THEN n ELSE LayerTapCap
           group == {KEYCODES_LAYERS[i] : i \in 1..Len(KEYCODES_LAYERS)}
           plain == {d \in group : ~d.masked /\ d.qmk_id \notin FnIds}
       IN  /\ Len(KEYCODES_LAYERS) = 6 * n + taps + (IF n >= FnLayers THEN 2 ELSE 0)
           /\ {d.qmk_id : d \in plain} = LayerActionIds(n)
           /\ Cardinality(plain) = 6 * n
           /\ (n >= FnLayers) <=> (FnIds \subseteq {d.qmk_id : d \in group})
           /\ (n < FnLayers) <=> (FnIds \cap {d.qmk_id : d \in group} = {})
           /\ {d.qmk_id : d \in {e \in group : e.masked}} = {LTId(x) : x \in 0..(taps - 1)}
           /\ Cardinality({d \in group : d.masked}) = taps

C11_Witness ==
    /\ keyboard # None /\ keyboard[1].layers = LayerTapCap + 1 /\ raised = None
    /\ Len(KEYCODES_LAYERS) = 120
    /\ find(<<"LT", "1", "5">>) # None /\ find(<<"LT", "1", "6">>) = None
    /\ find(<<"MO", "(", "1", "6", ")">>) # None
    /\ <<"LT", "1", "5">> \in masked_keycodes


\* the call op has just returned
Returned(op) == returned # None /\ returned[1].op = op

\* C12: a call of resolve returns the integer the table of the active protocol (v6 iff
\* protocol = 6, v5 otherwise) has for the id, raises the resolution error when the
\* table lacks the id, and leaves the registry as it was.
C12_ResolveStrict ==
    [][ (returned = None /\ returned' # None /\ returned'[1].op = "resolve")
        => /\ registry' = registry
           /\ LET table == IF protocol = 6 THEN keycodes_v6_kc ELSE keycodes_v5_kc
                  id == returned'[1].arg
                  r == returned'[1].result
              IN  IF id \in DOMAIN table
                  THEN r = [ok |-> TRUE, val |-> table[id], err |-> None]
                  ELSE ~r.ok /\ r.err = ResolveError ]_vars

C12_Witness ==
    /\ Returned("resolve") /\ protocol = 6
    /\ returned[1].arg = <<"KC_TRANSPARENT">>
    /\ returned[1].result = [ok |-> FALSE, val |-> 0, err |-> ResolveError]
    /\ resolve(<<"RESET">>).val = 31744

\* C13: every recorder alias stays bound to the descriptor it was bound to first, a
\* bound descriptor claims its alias, and the construction of a descriptor that claims
\* a bound alias raises the configuration error.
C13_RecorderAliasInjective ==
    [][ /\ \A a \in DOMAIN recorder_alias_to_keycode :
            /\ a \in DOMAIN recorder_alias_to_keycode'
            /\ recorder_alias_to_keycode'[a] = recorder_alias_to_keycode[a]
        /\ \A a \in DOMAIN recorder_alias_to_keycode' :
            \E i \in 1..Len(recorder_alias_to_keycode'[a].recorder_alias) :
                recorder_alias_to_keycode'[a].recorder_alias[i] = a
        /\ (returned = None /\ returned' # None /\ returned'[1].op = "Keycode")
           => LET d == returned'[1].arg
              IN  (\E i \in 1..Len(d.recorder_alias) :
                      d.recorder_alias[i] \in DOMAIN recorder_alias_to_keycode)
                  => ~returned'[1].result.ok /\ returned'[1].result.err = AliasError ]_vars

C13_Witness ==
    /\ Returned("Keycode") /\ keyboard # None
    /\ returned[1].arg.qmk_id = <<"KC_X2">>
    /\ returned[1].result.err = AliasError
    /\ recorder_alias_to_keycode[<<"break">>].qmk_id = <<"KC_PAUSE">>
    /\ recorder_alias_to_keycode[<<"z">>].qmk_id = <<"KC_X2">>


\* the text before the first "(" of a string that has one
Prefix(s) == SubSeq(s, 1, Find(s, "(") - 1)

\* the text between the first "(" and the last character
Inner(s) == SubSeq(s, Find(s, "(") + 1, Len(s) - 1)

\* s reads OUTER(INNER): an opening parenthesis and a closing one as the last character
Closed(s) == Find(s, "(") # 0 /\ Find(s, "(") < Len(s) /\ s[Len(s)] = ")"

\* C14 as stated: for OUTER(INNER) with a masked OUTER the two lookups answer for the
\* parts, and for every other string both answer what find answers.
C14_Original ==
    /\ Returned("find_outer_keycode")
       => LET s == returned[1].arg
          IN  returned[1].result = IF Closed(s) /\ Prefix(s) \in masked_keycodes
                                   THEN find(Prefix(s)) ELSE find(s)
    /\ Returned("find_inner_keycode")
       => LET s == returned[1].arg
          IN  returned[1].result = IF Closed(s) /\ Prefix(s) \in masked_keycodes
                                   THEN find(Inner(s)) ELSE find(s)

\* C14: for a string with a "(" whose text before the first "(" is a masked prefix,
\* closed or not, find_outer_keycode answers what find answers for that prefix (the
\* descriptor registered under it, absent when the current generation has none) and
\* find_inner_keycode what find answers for the text between the first "(" and the
\* last character (for "kc", what it answers for KC_NO); for every other string both answer what find
\* answers for the whole string.
C14_OuterInner ==
    /\ Returned("find_outer_keycode")
       => LET s == returned[1].arg
              r == returned[1].result
          IN  IF Find(s, "(") # 0 /\ Prefix(s) \in masked_keycodes
              THEN r = find(Prefix(s)) /\ (r # None => Strip(r[1].qmk_id) = Prefix(s))
              ELSE r = find(s)
    /\ Returned("find_inner_keycode")
       => LET s == returned[1].arg
              r == returned[1].result
          IN  IF Find(s, "(") # 0 /\ Prefix(s) \in masked_keycodes
              THEN r = find(Inner(s))
                   /\ (Inner(s) = <<"kc">> => r = find(<<"KC_NO">>))
              ELSE r = find(s)

C14_Witness ==
    /\ Returned("find_outer_keycode") /\ keyboard # None /\ keyboard[1].layers = 1
    /\ returned[1].arg = <<"LT", "3", "(", "KC_A", ")">>
    /\ <<"LT", "3">> \in masked_keycodes
    /\ returned[1].result = None
    /\ find_outer_keycode(Paren("LSFT", <<"KC_A">>)) = Some(KEYCODES_MAP[<<"LSFT">>])
    /\ find_inner_keycode(Paren("LSFT", <<"KC_A">>)) = Some(KEYCODES_MAP[<<"KC_A">>])

\* C15 as stated: is_mask is true exactly for the strings that read prefix(inner) with
\* a closing parenthesis and a prefix of masked_keycodes.
C15_Original ==
    Returned("is_mask")
    => returned[1].result = (Closed(returned[1].arg) /\ Prefix(returned[1].arg) \in masked_keycodes)

\* C15: is_mask is true exactly for the strings that contain "(" and whose text before
\* the first "(" is in masked_keycodes, closed or not; it is false for TD(0), MO(1) and
\* OSM(MOD_LSFT).
C15_IsMask ==
    Returned("is_mask")
    => LET s == returned[1].arg
       IN  /\ returned[1].result = (Find(s, "(") # 0 /\ Prefix(s) \in masked_keycodes)
           /\ s \in {TDLabel(0), Paren("MO", <<"1">>), Paren("OSM", <<"MOD_LSFT">>)}
              => ~returned[1].result

C15_Witness ==
    /\ Returned("is_mask") /\ keyboard # None
    /\ returned[1].arg = <<"LSFT", "(", "KC_A">>
    /\ returned[1].result
    /\ ~is_mask(Paren("MO", <<"1">>)) /\ ~is_mask(TDLabel(0))
    /\ is_mask(Paren("LSFT", <<"KC_A">>))

\* C16: label returns the string itself and tooltip returns None when
\* find_outer_keycode finds nothing; otherwise label returns the descriptor's label and
\* tooltip the descriptor's id, followed by ": " and its text when it has one. Neither
\* raises.
C16_LabelTooltipTotal ==
    /\ Returned("label")
       => LET s == returned[1].arg
              k == find_outer_keycode(s)
          IN  returned[1].result = IF k = None THEN s ELSE k[1].label
    /\ Returned("tooltip")
       => LET s == returned[1].arg
              k == find_outer_keycode(s)
          IN  returned[1].result =
                  IF k = None THEN None
                  ELSE IF k[1].tooltip = <<>> THEN Some(k[1].qmk_id)
                  ELSE Some(k[1].qmk_id \o <<": ">> \o k[1].tooltip)

C16_Witness ==
    /\ Returned("tooltip") /\ keyboard # None
    /\ returned[1].arg = <<"KC_NONUS_HASH">>
    /\ returned[1].result # None
    /\ Len(returned[1].result[1]) > 2
    /\ returned[1].result[1][2] = ": "
    /\ label(<<"garbage">>) = <<"garbage">>
    /\ tooltip(<<"garbage">>) = None

\* the methods that only read
ReadOps == {"find", "find_outer_keycode", "find_inner_keycode", "is_mask", "label", "tooltip",
            "serialize", "deserialize", "normalize"}

\* C17: a call of a reading method, whether it returns or raises, leaves the two
\* lookup maps, the registry by id, the alias map, the masked prefixes, the group lists
\* and the protocol as they were.
C17_ReadsPure ==
    [][ (returned = None /\ returned' # None /\ returned'[1].op \in ReadOps)
        => registry' = registry ]_vars

C17_Witness ==
    /\ Returned("deserialize") /\ keyboard # None
    /\ returned[1].arg = << <<"garbage">>, TRUE >>
    /\ ~returned[1].result.ok
    /\ find(<<"kc">>) # None /\ <<"kc">> \notin DOMAIN KEYCODES_MAP


Ids(keycodes) == {keycodes[i].qmk_id : i \in 1..Len(keycodes)}

\* how often the id occurs in the list
Occurrences(keycodes, id) == Cardinality({i \in 1..Len(keycodes) : keycodes[i].qmk_id = id})

\* C18: after a rebuild with macro_count = k, KEYCODES_MACRO is M0..M(k-1) followed by
\* the five control descriptors of KEYCODES_MACRO_BASE in their order, for k = 0 too;
\* each control descriptor occurs once in the group and once in KEYCODES, and no M(x)
\* with x >= k is in the group, in KEYCODES or in the id lookup.
C18_MacroGroup ==
    keyboard # None
    => LET k == keyboard[1].macro_count
       IN  /\ Len(KEYCODES_MACRO) = k + 5
           /\ \A x \in 1..k : KEYCODES_MACRO[x] = K(MacroId(x - 1), MacroId(x - 1), None, FALSE, <<>>, <<>>)
           /\ [j \in 1..5 |-> KEYCODES_MACRO[k + j].qmk_id]
                  = << <<"DYN_REC_START1">>, <<"DYN_REC_START2">>, <<"DYN_REC_STOP">>,
                       <<"DYN_MACRO_PLAY1">>, <<"DYN_MACRO_PLAY2">> >>
           /\ SubSeq(KEYCODES_MACRO, k + 1, k + 5) = KEYCODES_MACRO_BASE
           /\ \A j \in 1..5 :
                /\ Occurrences(KEYCODES_MACRO, KEYCODES_MACRO_BASE[j].qmk_id) = 1
                /\ Occurrences(KEYCODES, KEYCODES_MACRO_BASE[j].qmk_id) = 1
           /\ \A x \in k..(MaxMacro + 1) :
                /\ MacroId(x) \notin Ids(KEYCODES_MACRO) \cup Ids(KEYCODES)
                /\ MacroId(x) \notin DOMAIN KEYCODES_MAP

C18_Witness ==
    /\ keyboard # None /\ keyboard[1].macro_count = 0 /\ raised = None
    /\ MacroId(MaxMacro - 1) \in DOMAIN qmk_id_to_keycode
    /\ KEYCODES_MACRO = KEYCODES_MACRO_BASE
    /\ <<"DYN_REC_STOP">> \in DOMAIN KEYCODES_MAP

\* C19: after a rebuild KEYCODES_MIDI is the basic set for the level basic, the basic
\* set followed by the advanced set for the level advanced and empty for every other
\* setting; KEYCODES and the lookups of a completed rebuild hold no MIDI descriptor
\* that the level of the last snapshot does not give.
C19_MidiGroup ==
    keyboard # None
    => LET level == keyboard[1].midi
           basic == level \in {"basic", "advanced"}
           advanced == level = "advanced"
       IN  /\ KEYCODES_MIDI = (IF basic THEN KEYCODES_MIDI_BASIC ELSE <<>>)
                              \o (IF advanced THEN KEYCODES_MIDI_ADVANCED ELSE <<>>)
           /\ ~basic => Ids(KEYCODES_MIDI_BASIC) \cap (Ids(KEYCODES) \cup DOMAIN KEYCODES_MAP) = {}
           /\ ~advanced => Ids(KEYCODES_MIDI_ADVANCED) \cap (Ids(KEYCODES) \cup DOMAIN KEYCODES_MAP) = {}
           /\ ~basic => \A d \in Range(RAWCODES_MAP) : d.qmk_id \notin Ids(KEYCODES_MIDI_BASIC)
           /\ ~advanced => \A d \in Range(RAWCODES_MAP) : d.qmk_id \notin Ids(KEYCODES_MIDI_ADVANCED)


C19_Witness ==
    /\ keyboard # None /\ keyboard[1].midi = "full" /\ raised = None
    /\ KEYCODES_MIDI = <<>>
    /\ Ids(KEYCODES_MIDI_BASIC) \cap DOMAIN KEYCODES_MAP = {}
    /\ Ids(KEYCODES_MIDI_ADVANCED) \subseteq DOMAIN qmk_id_to_keycode
    /\ LTId(LayerTapCap - 1) \in DOMAIN qmk_id_to_keycode /\ keyboard[1].layers < LayerTapCap


\* C20: after a rebuild that completed, masked_keycodes is the set of the ids, with
\* "(kc)" removed, of the masked descriptors of KEYCODES: none is missing and no prefix
\* of a descriptor that KEYCODES lacks is present.
C20_MaskedExact ==
    (keyboard # None /\ raised = None)
    => masked_keycodes = {Strip(d.qmk_id) : d \in {e \in AllKeycodes : e.masked}}


\* C21: a rebuild that completes leaves Keycode.protocol equal to the snapshot's
\* vial_protocol and every entry raw -> d of RAWCODES_MAP with resolve(d.qmk_id) = raw
\* under that protocol; a call of serialize splits its argument by the masked table of
\* the protocol that is active at the call; an assignment to Keycode.protocol changes
\* the protocol and neither KEYCODES_MAP nor RAWCODES_MAP.
C21_ProtocolConsistent ==
    [][ /\ (returned = None /\ returned' = None /\ raised' = None)
           => /\ protocol' = keyboard'[1].vial_protocol
              /\ \A raw \in DOMAIN RAWCODES_MAP' :
                    resolve_in(protocol', RAWCODES_MAP'[raw].qmk_id) = [ok |-> TRUE, val |-> raw, err |-> None]
        /\ (returned = None /\ returned' # None /\ returned'[1].op = "serialize")
           => LET code == returned'[1].arg
                  r == returned'[1].result
                  m == IF protocol = 6 THEN keycodes_v6_masked ELSE keycodes_v5_masked
              IN  IF AndFF00(code) \in m
                  THEN r = hex(code)
                       \/ /\ AndFF00(code) \in DOMAIN RAWCODES_MAP /\ And00FF(code) \in DOMAIN RAWCODES_MAP
                          /\ r = Replace(RAWCODES_MAP[AndFF00(code)].qmk_id, <<"kc">>,
                                         RAWCODES_MAP[And00FF(code)].qmk_id)
                  ELSE r = hex(code) \/ (code \in DOMAIN RAWCODES_MAP /\ r = RAWCODES_MAP[code].qmk_id)
        /\ (returned = None /\ returned' # None /\ returned'[1].op = "protocol")
           => /\ protocol' = returned'[1].arg
              /\ KEYCODES_MAP' = KEYCODES_MAP /\ RAWCODES_MAP' = RAWCODES_MAP ]_vars

C21_Witness ==
    /\ Returned("protocol") /\ keyboard # None /\ raised = None
    /\ keyboard[1].vial_protocol = 5 /\ protocol = 6
    /\ 23552 \in DOMAIN RAWCODES_MAP /\ RAWCODES_MAP[23552].qmk_id = <<"RESET">>
    /\ resolve(<<"RESET">>).val = 31744
    /\ serialize(25092) = hex(25092)
    /\ serialize(8708) = hex(8708)


\* the position of the last descriptor of KEYCODES that has the id of the one at i
LastOf(i) == CHOOSE j \in i..Len(KEYCODES) :
                /\ KEYCODES[j].qmk_id = KEYCODES[i].qmk_id
                /\ \A k \in (j + 1)..Len(KEYCODES) : KEYCODES[k].qmk_id # KEYCODES[i].qmk_id

C23_DeserializeTotal ==
    (Returned("deserialize") /\ ~returned[1].arg[2]) => returned[1].result.ok


\* the class state when the rebuild for kb is the first one after the import
AfterFirstRebuild(kb) ==
    construct_all(ImportedClass,
                  layer_keycodes(kb.layers) \o macro_keycodes(kb.macro_count)
                  \o tap_dance_keycodes(kb.tap_dance_count) \o user_keycodes(kb.custom_keycodes))

\* C24: after any sequence of rebuilds that ends with a snapshot, is_mask and
\* deserialize with reraise = False, the queries that read the class-level sets, answer
\* every text as they do when the rebuild for that snapshot is the only one.
C24_HistoryIndependent ==
    keyboard # None
    => LET fresh == AfterFirstRebuild(keyboard[1])
       IN  \A s \in Texts :
             /\ is_mask(s) = (Find(s, "(") # 0 /\ Prefix(s) \in fresh.masked_keycodes)
             /\ deserialize(s, FALSE)
                    = deserialize_in(fresh.qmk_id_to_keycode, keyboard[1].vial_protocol, s, FALSE)


\* C25: a construction that raises the alias error leaves qmk_id_to_keycode,
\* recorder_alias_to_keycode and masked_keycodes as they were before the call.
C25_FailedConstructNoEffect ==
    [][ (returned = None /\ returned' # None /\ returned'[1].op = "Keycode"
         /\ ~returned'[1].result.ok)
        => /\ qmk_id_to_keycode' = qmk_id_to_keycode
           /\ recorder_alias_to_keycode' = recorder_alias_to_keycode
           /\ masked_keycodes' = masked_keycodes ]_vars


\* the integer a text of serialize denotes: resolve of a flat id, and for OUTER(INNER)
\* the high byte of resolve(OUTER(kc)) joined with the low byte of resolve(INNER)
Denoted(text) ==
    IF resolve(text).ok THEN resolve(text).val
    ELSE BitOr(AndFF00(resolve(Prefix(text) \o KC_SUFFIX).val), And00FF(resolve(Inner(text)).val))

\* C26: when the registry was rebuilt for the active protocol and serialize returns,
\* for an integer of 0..0x1FFFF, a text that is not the hex literal, the text denotes
\* that integer.
C26_SerializeExact ==
    (Returned("serialize") /\ keyboard # None /\ raised = None
     /\ protocol = keyboard[1].vial_protocol)
    => LET code == returned[1].arg
       IN  (code \in 0..131071 /\ returned[1].result # hex(code))
           => Denoted(returned[1].result) = code


\* C27: no signal is blocked once a handler of the editor has returned; a rebuild makes
\* no key_override_set call, because no signal of a load reaches KeyOverride.on_change;
\* and a load of either keyboard entry into any shown entry, as it is now, lets no
\* signal through.
C27_LoadSilent ==
    /\ \A x \in 1..AvailableEntries : Entry(x).blocked = {}
    /\ writes.handler \in {"rebuild", "rebuild_ui"} => writes.runs = <<>>
    /\ \A x \in 1..editor.key_override_entries : \A ko \in {KO_A, KO_B} :
          /\ KeyOverrideEntryUI_load(Entry(x), ko).emitted = <<>>
          /\ KeyOverrideEntryUI_load(Entry(x), ko).entry.blocked = {}

C27_Witness ==
    /\ writes = [handler |-> "rebuild_ui", runs |-> <<>>]
    /\ editor.keyboard # None /\ editor.keyboard[1].key_override_count = AvailableEntries + 1
    /\ editor.tabs = AvailableEntries
    /\ KeyOverrideEntryUI_save(Entry(AvailableEntries)) = KO_A
    /\ Entry(1).trigger_mods = [x \in 1..ModChecks |-> TRUE]
    /\ Entry(AvailableEntries).blocked = {}

\* C28: every run of KeyOverride.on_change that a change in a shown entry sets off
\* calls key_override_set once for each index 0..min(c, 128) - 1 in increasing order,
\* c being the key_override_count of the keyboard of the last rebuild, and for no other
\* index; the last run passes what save returns for each entry.
C28_WriteAllShown ==
    (editor.keyboard # None /\ writes.handler \notin {"rebuild", "rebuild_ui"})
    => LET c == editor.keyboard[1].key_override_count
           n == IF c < AvailableEntries THEN c ELSE AvailableEntries
       IN  /\ editor.key_override_entries = n
           /\ \A r \in 1..Len(writes.runs) :
                /\ Len(writes.runs[r]) = n
                /\ \A x \in 1..n : writes.runs[r][x].x = x - 1
           /\ writes.runs # <<>>
              => \A x \in 1..n :
                    writes.runs[Len(writes.runs)][x].ko = KeyOverrideEntryUI_save(Entry(x))

C28_Witness ==
    /\ writes.handler = "on_disable_all_layers"
    /\ editor.keyboard # None /\ editor.keyboard[1].key_override_count = AvailableEntries + 1
    /\ Len(writes.runs) = LayerChecks - 1
    /\ Len(writes.runs[1]) = AvailableEntries
    /\ writes.runs[1][AvailableEntries].x = AvailableEntries - 1
    /\ writes.runs[1][1].ko.layers = 65532
    /\ writes.runs[LayerChecks - 1][1].ko.layers = 0

\* C29: after a rebuild that loaded the entries the check box x of a row of a shown entry is bit x of the
\* number the keyboard reported, save returns that number & 0xFF for the three modifier
\* rows and & 0xFFFF for the layers; after on_enable_all_layers save returns 0xFFFF for
\* the layers and after on_disable_all_layers 0.
C29_BitmaskRoundTrip ==
    /\ writes.handler = "rebuild_ui"
       => \A e \in 1..editor.key_override_entries :
            LET ko == key_override_get(editor.keyboard[1], e - 1)
                saved == KeyOverrideEntryUI_save(Entry(e))
            IN  /\ saved.trigger_mods = ko.trigger_mods % 256
                /\ saved.negative_mod_mask = ko.negative_mod_mask % 256
                /\ saved.suppressed_mods = ko.suppressed_mods % 256
                /\ saved.layers = ko.layers % 65536
                /\ \A x \in 1..ModChecks :
                      Entry(e).trigger_mods[x] = ((ko.trigger_mods \div (2 ^ (x - 1))) % 2 = 1)
                /\ \A x \in 1..LayerChecks :
                      Entry(e).layers[x] = ((ko.layers \div (2 ^ (x - 1))) % 2 = 1)
    /\ writes.handler = "on_enable_all_layers" => KeyOverrideEntryUI_save(Entry(1)).layers = 65535
    /\ writes.handler = "on_disable_all_layers" => KeyOverrideEntryUI_save(Entry(1)).layers = 0

C29_Witness ==
    /\ writes.handler = "rebuild_ui" /\ editor.keyboard[1].image = "b"
    /\ editor.key_override_entries >= 2
    /\ key_override_get(editor.keyboard[1], 0).layers = 131070
    /\ KeyOverrideEntryUI_save(Entry(1)).layers = 65534
    /\ key_override_get(editor.keyboard[1], 0).trigger_mods = 511
    /\ KeyOverrideEntryUI_save(Entry(1)).trigger_mods = 255
    /\ KeyOverrideEntryUI_save(Entry(1)).suppressed_mods = 0
    /\ KeyOverrideEntryUI_save(Entry(2)).suppressed_mods = 2


\* C30: while the dialog is open, that is after every on_change, the OK button is
\* enabled iff value is not the empty string; value is not the empty string iff the
\* text of the entry is not empty and deserialize(text, reraise=True) returned an
\* integer without raising; then value is serialize of that integer, else it is "".
C30_DialogValue ==
    dialog # None
    => LET d == dialog[1]
           r == deserialize(d.txt_entry, TRUE)
           good == d.txt_entry # <<>> /\ r.ok
       IN  /\ d.on_changes >= 1
           /\ d.ok_enabled <=> (d.value # <<>>)
           /\ (d.value # <<>>) <=> good
           /\ d.value = IF good THEN serialize(r.val) ELSE <<>>

C30_Witness ==
    /\ dialog # None
    /\ dialog[1].txt_entry = <<"KC_X3">>
    /\ <<"KC_X3">> \in DOMAIN qmk_id_to_keycode
    /\ ~deserialize(<<"KC_X3">>, TRUE).ok
    /\ dialog[1].on_changes = 2
    /\ ~dialog[1].ok_enabled
    /\ KEYCODES # <<>>
    /\ serialize(deserialize(Paren("LSFT", <<"KC_A">>), TRUE).val) = Paren("LSFT", <<"KC_A">>)

=============================================================================
